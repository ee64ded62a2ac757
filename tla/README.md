# A TLA+ development of mloperator

mloperator is a Kubernetes operator with four custom resources, called
*operations*: `Job`, `Service`, `KfJob` and `Cluster`. For each one a controller
creates an underlying resource (a batch Job, a Deployment and a Service, a
Kubeflow job, a Ray or Dask cluster), follows it, keeps a list of conditions in
the operation's status, reports every condition to the Polyaxon control plane,
has the control plane collect the logs, and removes the operation in the end.

This directory holds TLA+ modules for the four controllers and what they are
built on, TLC configurations that check them on small instances, and TLAPS
proofs about the four controllers, the contents of their resources, the loops over
pods and the manager.

## 1. Inventory

| component | state it keeps | operations | how it interacts |
|---|---|---|---|
| Job controller, `internal/controller/job` | none in memory; the Job resource's status and finalizers, the batch Job | `Reconcile`: start time, finalizers, `reconcileJob`, `reconcileJobStatus`, `handleFinalizers`, `handleTTL` | reads informer caches, writes to the API server, calls the control plane, is woken by watches, timers and errors |
| Conditions, `api/v1/condition.go` | ordered list of conditions, one per type; StartTime, CompletionTime | `Log*`, `IsDone`, `ShouldMarkJobAsDeleted`, `MarkJobAsDeleted` | called by every controller on its copy of the resource |
| Pod inspection, `helpers/managers/pods.go` | none | `GetMainContainerExitStatus`, `HasUnschedulablePods`, `GetInvalidImageName`, `IsMainContainerRunning` | reads the pod cache, whose order is arbitrary |
| Batch Job helpers, `helpers/managers/jobs.go`; `helpers/utils/constant.go` | none | `GenerateJob`, `CopyJobFields`, `IsJobSucceeded`, `IsJobFailed`, `GetTTL`, `GetBackoffLimit` | called by the Job controller |
| Control plane client, `helpers/plugins/polyaxon.go` | none | report a status, collect logs | HTTP calls that may fail |
| Service controller, `internal/controller/service` | Deployment, base Service, status | as the Job controller, and `handlePastActiveDeadline`, `handleServiceContainerExit`, `handleCulling` | as the Job controller, and an HTTP probe of the service |
| KfJob controller, `internal/controller/kfjob` | TFJob, PyTorchJob or MPIJob, status | as the Job controller | watches with predicates that filter events; the job is read live |
| Cluster controller, `internal/controller/cluster` | RayCluster or DaskCluster, status | as the Job controller, and `handlePastActiveDeadline` | reads its operation again after its own writes; the cluster is read live |
| Deployment and Service helpers, `managers/deployments.go`, `services.go`, `unstructured.go` | none | `Generate*`, `Copy*Fields`, `IsDeployment*` | called by the controllers with stored and generated resources |
| Generators, `managers/jobs.go`, `kfcommon.go`, `tfjob.go`, `pytorchjob.go`, `mpijob.go`, `raycluster.go`, `daskcluster.go` | none | build the resource of a runtime | called before each creation |
| Manager start-up, `cmd/main.go`; configuration, `helpers/config` | flags, environment, the lease | parse, set up the controllers, start | leader election between replicas |
| Metrics collector, `helpers/plugins/metrics.go`; Istio helpers; generated code | none | build data | not called |

What makes each part correct:

- *conditions*: one per type, in order, the last one current; an outcome
  (Succeeded, Failed, Stopped) is recorded once and never changes;
- *controllers*: the outcome is the underlying resource's; the control plane
  hears of it, and never of another one; logs are collected before the
  operation can go; a finished or deleted operation goes; no event is lost, so
  that a controller with nothing to do has nothing left to do;
- *deadline and culling*: a service or a cluster does not outlive its deadline;
  a service is culled when it stays idle, and only when a probe found it idle;
- *resources*: a base Service routes to the pods of its Deployment, edits reach
  both, and the pods of a runtime carry the labels they are looked up by;
- *manager*: with leader election at most one replica is active, and one is
  again after a failure;
- *pod inspection*: the loops do not depend on the order of pods more than
  their definitions say, and report the worst failed exit.

What is hard: reads come from caches that lag behind writes and behind each
other; two resources are watched independently; a write may be refused, or
accepted with its answer lost; the operator may stop between any two calls; a
failed log collection is swallowed; predicates drop events; the underlying
resources have a TTL of their own; several handlers of one pass compete for the
end of the operation; the user may delete or edit anything at any
time. `PROJECT.json` lists these hazards with the line where each one bites.

## 2. Modules

| module | what it is |
|---|---|
| `OperationStatus` | a status as the controllers see it: the set of condition types, the last condition, StartTime, CompletionTime; the `Log*` functions |
| `ConditionLog` | the ordered list itself with its times; checked and proved to implement the summary of `OperationStatus` |
| `Pods` | what is read off pods, as definitions without loops |
| `PodScan`, `MCPodScan` | the loops of `pods.go`, a pod per step; checked and proved to compute the definitions of `Pods` |
| `OperationLifecycle` | the abstract specification: what any controller promises about one operation |
| `JobController` | the Job controller and its surroundings |
| `JobControllerProofs` | the proofs about `JobController`: types, one outcome and the refinement; reports, the batch Job behind the outcome, lost wake-ups |
| `Kube` | the ground the other three controllers stand on: operation and owned resource in the API server, caches, queue, timers, control plane |
| `Handlers` | the handlers that each package repeats (dispatch, start time, finalizers, reports, log collection, TTL), over `Kube` |
| `ServiceController`, `KfJobController`, `ClusterController` | the three controllers; each extends `Handlers` and gives the handlers the names they have in its package |
| `HandlersProofs` | lemmas about `Kube` and `Handlers`: what each handler does to the stored operation and to the copies of it |
| `KfJobProofs` | the proofs about `KfJobController`: the refinement, the outcome, no deletion unheard |
| `ServiceProofs` | the proofs about `ServiceController`: the refinement, the outcome, culling, no event lost, current reports |
| `ClusterProofs` | the proofs about `ClusterController`: the outcome stands, no event lost, a cluster shown as running serves |
| `MCServiceController`, `MCKfJobController`, `MCClusterController` | the setups of each that TLC looks at |
| `Operator`, `MCOperator` | the three composed, as one operator runs them; what eventually happens |
| `ServiceResources`, `Generators`, `MCResources` | the contents of Deployment and base Service while the operation is edited; what is generated for the other runtimes |
| `Manager`, `MCManager` | start-up and leader election of several replicas |
| `OperatorProofs` | that `Operator` is each of the three controllers |
| `ResourcesProofs` | the proofs about `ServiceResources` and `Generators` |
| `PartsProofs` | the proofs about the parts around the controllers: `Manager`, the loops of `PodScan`, and `ConditionLog` |

`JobController` is written on its own, because its proofs are about its text;
`Kube` and `Handlers` say the same of the three other packages.

### JobController

One operation, its batch Job and the batch Job's pods.

*State.* `op` is the stored Job resource (its life, its finalizers, its status),
`job` the batch Job, `pods` its pods, each by the stage it is in. `opCache`,
`jobCache`, `podCache` are what the informers hold. `pc`, `inst`, `found`,
`then` are the reconciler's program counter and locals: its copy of the
resource (`instance`), its copy of the batch Job (`foundJob`), and what it does
after a report. `queued` and `timer` are the work queue and a pending
`RequeueAfter`. `reported`, `latest` and `collected` are what the control plane
knows. Resource versions are only ever compared with the stored one, so
`current` holds which copies have it; a copy that is not in `current` gets a
conflict when it is written.

*Actions.* The work queue never runs two reconciliations of one key, so
`Reconcile` is one process. A step goes up to and including one call to the API
server or the control plane:

| action | code |
|---|---|
| `Fetch`, `Dispatch` | `Reconcile`: read the cached resource, decide what to do |
| `AddStartTime`, `AddLogsFinalizer`, `AddStatusFinalizer` | `status.go`, `finalizer.go` |
| `handleFinalizersStop`, `collectLogs`, `removeFinalizer` | `handleFinalizers` |
| `handleTTL` | `handleTTL`, `delete` |
| `getJob`, `createJob`, `writeStarting`, `updateJob`, `checkStatus`, `writeStatus` | `reconcileJob`, `reconcileJobStatus` |
| `instanceSyncStatus` | `sync.go`, `LogPolyaxonRunStatus` |
| `mapPodToRequest`, `WatchOp`, `WatchJob`, `Resync`, `RequeueAfter` | the watches of `SetupWithManager`, the resync and timers of controller-runtime |
| `Crash` | the operator restarts and lists everything afresh |
| `UserDeletes`, `PodMoves`, `JobStartsPod`, `JobCounts`, `JobDeadline`, `JobTTL`, `JobDeleted`, `JobCollected` | the user, kubelet, batch Job controller, TTL controller and garbage collector, as far as the operator can tell |

A call may fail (nothing happens and an error comes back) or lose its answer
(it happens and an error comes back); both count against `MaxFaults`.

*Abstractions.* Times are Booleans (`expired`: the TTL of the finished operation
has passed). A condition's reason and message are one value `why`. A pod is one
of seven stages, which `PodAt` turns into the status record the inspection
functions read. One operation is modelled: operations share no state but the
queue, which serves each key. `Orders` gives the pod list in every order,
because a cache lists a map. `CopyJobFields` compares the pointers of three
fields, so a batch Job that exists is written back in every pass; the write
changes nothing and fails when the copy is old (`updateJob`). The pods are those of
the operation, which pass the label predicates of the watches. They have containers,
so the fallback of `getMainContainerStatus` for a pod without any is left out.

### Kube, Handlers and the three controllers

`Kube` has the state of `JobController` with `owned` in place of `job`: the
Deployment, Kubeflow job or cluster, whose status each controller's module
defines. A Deployment is read from a cache (`ownedCache`). Kubeflow jobs and
clusters are unstructured objects, which controller-runtime reads live, so for
them only the event matters: `"ownedCache"` is in `current` when the watch has
no event left that its predicates let pass.

What an operation asks for, the environment of the operator and the bounds of a
behaviour are one record, `setup`, which the initial state picks from the
constant `Setups` and no step changes; `TTL`, `ActiveDeadline`, `MaxFaults` and
so on are its fields. So one run looks at several setups, each of which makes
other things happen.

| module | code | actions of its own |
|---|---|---|
| `ServiceController` | `service/*.go` | `reconcileDeployment` and `reconcileDeploymentStatus`, `reconcileBaseService`, `handlePastActiveDeadline`, `handleServiceContainerExit`, `handleCulling` with its probe, in this order in one pass; `Finish` and `Cull` end it |
| `KfJobController` | `kfjob/*.go` | `reconcileTFJob`, `reconcilePytorchJob`, `reconcileMPIJob` (one operator, three actions), `updateKfJob`, `checkStatus`; the watch of the job passes creations and deletions only |
| `ClusterController` | `cluster/*.go` | `reconcileRayCluster`, `reconcileDaskCluster`, `updateCluster`, `checkStatus` (status of the runtime, then the deadline), `refetch` after each of its writes; `clusterResourcePredicate` |

*Abstractions.* A Deployment's status is its conditions and counts as
`reconcileDeploymentStatus` reads them; a pod is one of a few stages with an
exit code and restarts; the status of a Kubeflow job is the type of its last
condition (the types that the code reads), of a RayCluster its state and the conditions that are True, of a
DaskCluster its phase. `overdue` and `idle` stand for the clock against the
deadline and the last activity. Whether `CopyUnstructuredFields` finds a
difference depends on what the other operator defaulted, so both answers are
possible. Likewise a Deployment is written back or left alone: `CopyDeploymentFields`
skips the write when the API server added no default to the template. The kinds that
`config` enables are a field of the setup: the events of a kind that is not
enabled wake nobody, and what is claimed of a controller at rest is claimed of
enabled kinds. A nil CompletionTime in `handleTTL` is a panic, which
controller-runtime recovers into an error.

The Service and KfJob controllers implement `OperationLifecycle` (their
`Lifecycle`). The Cluster controller does not: the pass that created the cluster
goes on with the operation it read again, so that an outcome may be recorded
after a deletion was asked for. `OutcomeStands` says what remains.

### Operator

`Operator` takes the three controllers with `INSTANCE` over one `Kube`: the same
queue, caches and timers, and a `setup` that says which controller the operation
is for. A step of it is a step of that controller. It is where fairness is stated
and what eventually happens is asked; what may never happen is asked of each
controller in its own module.

### The smaller modules

`ServiceResources` gives Deployment and base Service their contents: labels,
annotations, ports, image. The user edits the operation at any moment of a pass;
the API server adds defaults to a stored pod template, so a template that does
not spell them out differs in every pass; and the generated pod shares its
containers with the controller's copy of the operation, so that the probe later
in the pass reads ports that the generator added. `Generators` has the other
runtimes as functions from a request to the pods and the TTL that are generated,
which `ServiceResources` applies to every request of a small set (`Generate`).
`Manager` has a process per replica: environment, flags, manager, the four
controllers in order, checks, start; the lease is external.

## 3. Runs

| run | instances | what it asks |
|---|---|---|
| `job_failures` | caches arbitrarily old, logs finalizer, one failed call, one restart, one removal of the batch Job by its TTL or by somebody | `ReportInv` (the invariant of the proofs), `TypeOK`, `OneOutcome`, `ReportedOutcome`, `NoLostWakeup`, refinement of `OperationLifecycle` |
| `job_retries` | backoff limit 1 (two pods), deadline, five stages of pods, status finalizer, one failed call, ordered watches | the outcome is the batch Job's (`OutcomeMatchesJob`), reports are current (`ReportIsCurrent`), a final report precedes the end (`FinalReportBeforeGone`) |
| `job_liveness` | both finalizers, TTL, one failed call, one restart, one removal by the TTL of the batch Job, fairness | `EventuallyGone` although errors are swallowed, `SuccessIsReported` |
| `service` | exits against the deadline, with caches of any age; a failed call and a restart; a removal with a failed call; culling with a probe that fails; two replicas; restarts of the main container; a backoff limit of -1 | `OutcomeMatchesPods`, `ReportedOutcome`, `ReportIsCurrent`, `NoLostWakeup`, `CulledWhenIdle`, refinement of `OperationLifecycle` |
| `kfjob` | a TFJob with every end and a restart of its pod; a PytorchJob with a failed call and a restart of the operator; an MPIJob that is deleted or cleaned up; a kind that is not watched | `OutcomeMatchesJob`, `ReportedOutcome`, `DeletionIsHeard`, refinement of `OperationLifecycle` |
| `cluster` | a RayCluster and a DaskCluster in every state, with caches of any age; a scheduler and a worker; a failed call and a restart; a deadline; a removal; a kind that is not enabled | `OutcomeMatchesCluster`, `OutcomeStands`, `ReportedOutcome`, `NoLostWakeup`, `RunningMeansServing` |
| `operator` | a service with a deadline and a TTL; one that is culled; a TFJob that ends or fails; a RayCluster with a deadline and a TTL, and one with a TTL and a restart of the operator; fairness, no failed calls | `EventuallyGone`, `IdleIsCulled`, `StopsWriting` |
| `operator_late` | a service with a deadline and a TTL, one failed call, fairness | violates `EventuallyGone`: see below |
| `resources` | two edits and one removal during any pass; every runtime with templates with none, the same, other and conflicting labels, TTL unset, 0, 4, 6 | `ServiceRoutesToPods`, `EditsArrive`, `ProbePortIsServed`, `ResultIsReadable` |
| `manager` | two replicas, 12 environments, 4 command lines, two failures | `OneActive`, `TakesOver` |
| `condition_log` | three types, two reasons, four seconds | the list against its summary |
| `pod_scan` | every list of up to three of nine pods | the loops against their definitions |

Bounds. One removal, one restart and one failed call are enough for each to fall
between any two steps; in `job_failures` all three happen in one behaviour. In `service` the removal comes
with a failed call, since a base Service that is created and deleted between two
events of its watch needs a pass that was sent back by the failure. A
second pod is what makes the order of the list and the retries matter. The setups
switch features on one at a time so that each run stays near two million states;
every action is taken in some run. The proofs are for every value of the
constants: any setup, any bound. TTLs around the minimum of 5 (0, 4, 6, unset) are
what `resources` needs; two edits let one fall into the pass of the other.

Two switches restrict the environment of some runs and setups. `OrderedWatches`
keeps a watch from falling behind the one of the operation, and `TimelyOperator`
lets the TTL controller act only when the operator has settled, which is what
`GetTTL`'s minimum of five seconds is for. Where they are FALSE the caches and
the TTL controller are arbitrary; where they are TRUE the run asks what holds
beyond the observations below.

Fairness of the Job controller (`FairSpec`): the work queue is served (`Reconcile`), watches deliver,
a `RequeueAfter` fires, time passes, and the informers resync (controller-runtime
does so every ten hours, and the operation is watched without a predicate that
would drop a resync). Nothing is assumed of the user, the pods, the batch Job
controller, or failures. The resync is what a swallowed error of log collection
relies on: without it `EventuallyGone` fails.

`FairSpec` of `Operator` has the same without the resync, so what it shows does
not take ten hours. Only for Kubeflow jobs the replay is fair as well: the end of
such a job passes no watch, and no timer is set. No fairness is asked of a restart of
the operator, which loses its queue and timers and lists everything afresh; the
operation still goes. The setups with a deadline have no restart: one between the
record of Stopped and the delete leaves what `operator_late` shows of a failed delete.
For `Manager` every step of a replica but its failures is fair, and an abandoned lease
runs out.

### What the code does and its documentation does not say

`operator_late` is a run of its own. `handlePastActiveDeadline` of a service
(`service/cleanup.go:65`) records Stopped without a CompletionTime and then
deletes. When that call fails, the operation is done, `handleTTL` dereferences
the nil CompletionTime (`service/cleanup.go:39`) in every later pass, and the
operation is never removed, although `api/v1/termination.go:24-27` says that
after its TTL it is "eligible to be automatically deleted".

The following was observed while the modules were written. The properties are
stated so that they hold of the code as it is; the last column says how.

| where | what happens | what it says | the properties |
|---|---|---|---|
| `job/cleanup.go:35` (and the other three) | without `ttlSecondsAfterFinished` a done operation is deleted at once | `termination.go:28-29`: "If this field is unset, the Job won't be automatically deleted." | `TTL` = FALSE stands for it: such an operation goes when it is done |
| `job/job.go:42` | the Job cache is behind the operation cache, the batch Job looks missing, and the operation ends as Stopped while it lives | `condition.go:254-256`: "but is now missing (deleted externally)" | `OutcomeMatchesJob` allows Stopped while the operation was not seen running; with ordered watches only before it started, after a failed call |
| `job/job.go:62`, `kfjob/tfjob.go:68`, `cluster/raycluster.go:61` | a stale copy of the operation has no condition yet, and the resource is created again after its removal | `job_test.go:146`: "should not recreate the job"; `raycluster.go:62`: "Instance is already marked as done, don't recreate" | `OutcomeStands` and uniqueness for clusters are stated while nothing was removed |
| `job/job.go:142` | a batch Job fails with its deadline before it has a pod; `Failed` is 0, and the operation never ends | `condition.go:62`: "OperationFailed means underlaying Operation has failed." | no progress of failing batch Jobs is asked |
| `service/service.go:282` | attempts count clean exits, so one failure may exhaust one retry | `service.go:287`: "after %d failed attempt(s), exceeding maxRetries" | `OutcomeMatchesPods` asks for one failure and enough exits |
| `kfjob/controller.go:194` | status updates of a Kubeflow job pass no watch, which asks for a changed generation | `controller.go:186`: "Always watch TFJob for status changes (unconditional)" | `DeletionIsHeard` asks for deletions; `EventuallyGone` relies on the replay |
| `kfjob/tfjob.go:57` | the job is cleaned up before its result was read, and the operation ends as Stopped | `constant.go:14`: "to give the operator time to read final status before cleanup" | `OutcomeMatchesJob` allows Stopped where jobs are cleaned up |
| `kfjob/kfcommon.go:130` | a job restarts while a pod is not ready: two warnings replace each other and each write wakes the controller | `condition.go:100`: "Do nothing if condition doesn't change" | `StopsWriting` is checked without restarts of the job |
| `cluster/controller.go:243` | a condition of a RayCluster changes without its state, and the update is dropped | `controller.go:211`: "watch spec changes, status changes, and deletions" | `NoLostWakeup` asks for recorded statuses of Dask only |
| `cluster/raycluster.go:69` | the Warning of a failed creation is taken for a cluster that was deleted | `raycluster.go:67`: "these only exist after the job has been created and started running" | `OutcomeMatchesCluster` allows Stopped after a failed call |
| `cluster/raycluster.go:75` | a deleted cluster ends without a CompletionTime, and `handleTTL` panics in every pass | as `operator_late` | `operator` has no removals |
| `managers/deployments.go:16` | a label that is added is not found by the comparison of labels | `deployments.go:13`: "Returns true if the fields copied from don't match to." | `resources` does not edit labels |
| `managers/daskcluster.go:23` | a label of the template hides the pods of a Dask cluster | `pods.go:142`: "ListInstancePods returns the pods of an operation" | `ResultIsReadable` excepts it |
| `managers/raycluster.go:79` | the name made up for a group may be the one given to another | `api/v1/raycluster.go:10`: "we distinguish them by name" | groups are data |
| `managers/raycluster.go:85` | the maximum of a Ray group defaults to 1, below its replicas | `api/v1/raycluster.go:17`: "MaxReplicas defaults to maxInt32" | replicas are data |
| `managers/daskcluster.go:59` | the number of Dask workers defaults to 0 | `api/v1/daskcluster.go:11`: "If unspecified, defaults to 1." | replicas are data |
| `managers/daskcluster.go:107` | no autoscaler is created for a minimum and a maximum | `api/v1/daskcluster.go:42`: "a DaskAutoscaler will be created" | the function has no caller |
| `cmd/main.go:93` | the default of the flag overwrites the environment's leader election | `main.go:70`: "Allow to pass by env and override by flag" | `OneActive` is stated for the flag |

## 4. Proofs

Each is for every value of the constants: every configuration or setup, any
number of pods or replicas, and any number of failed calls, restarts and removals.

| module | theorem | statement |
|---|---|---|
| `JobControllerProofs` | `Invariance` | `Spec => []InductiveInv` |
| | `TypeCorrect`, `OneOutcomeHolds` | `Spec => []TypeOK`, `Spec => []OneOutcome` |
| | `Refinement` | `Spec => Lifecycle` |
| | `ReportInvariance` | `Spec => []ReportInv` |
| | `ReportedOutcomeHolds`, `FinalReportBeforeGoneHolds`, `OutcomeMatchesJobHolds` | the three properties of these names |
| | `WakeInvariance` | `Spec => [](InductiveInv /\ WakeInv)` |
| | `NoLostWakeupHolds`, `ReportIsCurrentHolds` | the two properties of these names |
| `KfJobProofs` | `SharedInvariance`, `JobInvariance` | `Spec => []SharedInv`, `Spec => []JobInv` |
| | `LifecycleHolds` | `Spec => Lifecycle` |
| | `ReportedOutcomeHolds`, `OutcomeMatchesJobHolds`, `DeletionIsHeardHolds` | the three properties of these names |
| `ServiceProofs` | `SharedInvariance`, `PodInvariance` | `Spec => []SharedInv`, `Spec => []PodInv` |
| | `LifecycleHolds` | `Spec => Lifecycle` |
| | `ReportedOutcomeHolds`, `CulledWhenIdleHolds`, `OutcomeMatchesPodsHolds` | the three properties of these names |
| | `WakeInvariance` | `Spec => [](PodInv /\ WakeInv)` |
| | `NoLostWakeupHolds`, `ReportIsCurrentHolds` | the two properties of these names |
| `ClusterProofs` | `ClusterInvariance` | `Spec => []ClusterInv` |
| | `ReportedOutcomeHolds`, `OutcomeMatchesClusterHolds`, `OutcomeStandsHolds`, `RunningMeansServingHolds` | the four properties of these names |
| | `WakeInvariance`, `NoLostWakeupHolds` | `Spec => [](ClusterInv /\ WakeInv)`, `Spec => []NoLostWakeup` |
| `ResourcesProofs` | `ResourcesInvariance` | `Spec => []ResourcesInv` |
| | `EditsArriveHolds`, `ServiceRoutesToPodsHolds`, `ProbePortIsServedHolds`, `ResultIsReadableHolds` | the four properties of these names |
| `PartsProofs` | `LeaderInvariance`, `OneActiveHolds` | `Spec => []LeaderInv`, `Spec => []OneActive` of `Manager` |
| | `ScanInvariance` | `ScanSpec => []ScanInv`, the invariant of the loops |
| | `ExitLoopCorrectHolds`, `VerdictLoopCorrectHolds` | the two properties of these names |
| | `LogInvariance` | `LogSpec => []LogInv` |
| | `OnePerTypeInOrderHolds`, `LogsOnSummaryHolds`, `TransitionKeptHolds` | the three properties of these names |
| `OperatorProofs` | `ServiceComposed`, `KfJobComposed`, `ClusterComposed` | `setup.Controller = "Service" => (Spec <=> Service!Spec /\ KfJobRests /\ ClusterRests)`, and the like |

`Lifecycle` is the refinement of `OperationLifecycle`: initial states map to
initial states, and every step to a step or a stutter.

*Assumptions.* Those that the modules state and TLC evaluates: switches are
Booleans, bounds are natural numbers, the stages of pods are among the seven
(`JobController`); a setup has the fields of its operation (`KubeSetups`,
`ClusterSetups` and their like); the replicas are a finite set, and an unset
variable or flag is no value of it (`ManagerAssumption`); every operation has an instance label, ports
are natural numbers, and a field that is not set is none of its values
(`ServiceResourcesAssumption`, `GeneratorsAssumption`);
the containers of a pod are a list and their restarts natural numbers
(`PodSetAssumption`).

### The Job controller

`OneOutcome` is not inductive: a reconciler that is about to write must know
that the stored operation is not finished. `InductiveInv` adds it.
`CopiesCurrent` says what a copy with the stored resource version says of the
stored resource: all of it, except the status the reconciler has just changed
and not yet written. `RuntimePhase` says that a reconciler that handles the
batch Job has a live, unfinished copy, so that with `CopiesCurrent` a write that
is accepted goes over an unfinished operation; `EndingPhase` says the same of
the way to removal, and that the logs finalizer is only removed after a
collection; `LastKnown` says that a report has a condition to send; `Lives` and
`StatusesWellFormed` carry what remains. `JobControllerProofs` proves that each action
keeps the types, that each keeps the other parts, one lemma per action, and then
that each is a step of `OperationLifecycle` or a stutter.

`ReportInv` is what the reports need besides. A report is sent from a copy that
may be old by then, so `CopiesOlder` says that no copy, of whatever age, claims
an end that is not stored, but for a decision that is about to be written; `StoppedPhase` that Stopped is reported only for a
deletion that came first; `HeardInTime` that an outcome has been heard before the
controller comes to anything that removes the operation (it is conditional on no
failures and no restarts, as `FinalReportBeforeGone` is); `DecisionsJustified`
that what a pass read of the batch Job and its pods is still so when it writes,
because the end of a batch Job stands. `OutcomeMatchesJob` also says when Stopped is
*not* recorded for a batch Job that a cache does not have. `JobCopiesCurrent` says
what a copy of the batch Job with its stored version says of it, and `StopsJustified`
that whatever an operation or a copy of it tells of a batch Job was there, and that,
with ordered watches, a cache that knows of the operation's start knows its batch Job.
So the pass that takes a batch Job for deleted is over an operation that has
conditions but did not start, which takes a `Create` that seemed to fail.

`WakeInv` is the strengthening of `NoLostWakeup`. Whatever changes the operation or
the batch Job makes a cached copy old, and a cache that catches up queues the key, so
a step that leaves nothing to be delivered has changed neither (`QuietSteps`). Hence,
while nothing is to be delivered, a pass works on current copies (`Accounted`), a
write that it makes changes the operation (`WritesChange`, so that something is to be
delivered again) or ends in an error, and a pass that returns has found nothing to do
(`Rested`). The pods need no account of their own: `Rested` is about the pods as the
last pass could see them, and they are what `NoLostWakeup` speaks of once the cache is
current.

`FollowInv` is the strengthening of `ReportIsCurrent`. The danger is the report that
follows `writeStarting` even when that write was refused: it may tell of a condition
that is not stored. `JobFirst` says that nothing was logged before the batch Job was
there, so that nothing stored is contradicted by it; every later report is of a
status that has just been stored (`Followed`).

### The handlers, KfJob and Service

The three other packages repeat the handlers, so `HandlersProofs` does the work
once. It describes how any step may *move* the stored operation, the cached
copy, the controller's copy, the reports and the logs (`Move`), and shows that
every move keeps `SharedInv` (`MoveKeeps`) and is a step of `OperationLifecycle`
(`Simulates`); one lemma per handler, watch and step of the world shows that it
is such a move. A controller's module then only shows it of its own actions.
`SharedInv` has the parts of `InductiveInv` and `ReportInv` that are about the
copies: what a current copy says, what a copy of any age says, what each label
of a pass has established.

`JobInv` of `KfJobProofs` adds what a pass knows of the Kubeflow job: what it can
see of an end has happened, and a recorded end was seen. `Awaited` is the
strengthening of `DeletionIsHeard`: an unfinished operation without a job has its
key in the queue, an event that is not yet delivered, or a pass that is on its way
to find out. It is inductive because a pass over an unfinished operation has an
unfinished copy, so it does not turn to the end of the operation.
`CullInv` of `ServiceProofs` says that a pass during which the service was idle
knows so, and which passes come to the delete.

`PodInv` of `ServiceProofs` is the strengthening of `OutcomeMatchesPods`. A pass
judges the pods of a cache that may be old, in any order, and from the one exit
that `GetMainContainerExitStatus` picks. So the proof needs that this exit exists
in some pod (`ExitPicked`: the greatest number of attempts, and the first pod that
has it, exist, by the least-number principle), that what it says is true of the
pod it was read off (`ExitRead`: the code is that of the last exit, and no more
attempts are counted than there were exits; `PodOK` is what makes it so), that
the pods have been through at least as much as the cached ones (`Earlier`, until
something is removed), and that the grounds of an outcome stay grounds as pods
go on (`GrowsFacts`). A base Service that cannot be created logs a warning over a
status that may have ended in the same pass; `StatusOK` says that nothing else does.

`WakeInv` of `ServiceProofs` is the strengthening of `NoLostWakeup`. While nothing is
to be delivered about the operation, the Deployment or the base Service
(`Delivered`), either a pass is on its way with the stored operation and has come
past what its label says (`OnCourse`), or there is nothing to do (`Calm`). A pass
judges the Deployment first and the exits two calls later. A status or an exit that
is recorded changes the operation, so something is to be delivered again; a pass
that reaches its end without a write has seen that there was none to make
(`Judged`, `ExitsJudged`). The Deployment is judged from one order of the pods, and
`Judged` speaks of every order, because the verdict does not depend on it
(`OrderIrrelevant`). It holds with removals too. The attempt to prove it corrected the model: the watch of the
base Service had been a comparison of the cached and the stored one, so that a
Service created and deleted between two events was never heard of. The informer
gets both events; `svcHeard` says whether one is left.

`FollowInv` of `ServiceProofs` is the strengthening of `ReportIsCurrent`, as in the
Job controller, without its exception: every status is reported in the step after
its write was accepted, so all other steps find the control plane informed
(`Followed`); and a pass takes a finalizer away only on a way that begins with an
end that has been reported.

### The Cluster controller

It reads its operation again after its own writes, from a cache that may be
older than what it has just written; a pass may go on with a copy that is
younger, older, or being deleted, and `SharedInv` does not hold of it.
`ClusterInv` has two halves.

- `CopyInv`: what remains true of the copies. No copy claims a condition or a
  deletion that is not stored (`Behind`), a current copy is the stored one up to a
  condition that is not final (`Versions`), and the labels of the end are reached
  only with a copy that has ended (`EndPhases`).
- `PassInv`: why there is still one outcome. A write that the API server accepts
  may come from a second read, and nothing about the copy alone shows that it is
  unfinished. `Underway` says that a pass that tends a cluster is over an
  unfinished operation and that the cluster is there until somebody deletes it;
  `Recorded` says that an operation with a condition had a cluster or failed to
  create it, and that a finished one without a cluster is known, in every cache,
  to have conditions, so that no pass takes it for a new one. With a removal both
  fail, which is the exception in `OutcomeMatchesCluster` and `OutcomeStands`.
  `Evidence` says that what can be seen of an end has happened.

`CopyMove` is the analogue of `Move`. `Kept` is what is shown of every step: it
keeps `ClusterInv`, and it only adds conditions to the stored operation. Since the
invariant has one outcome before and after, a step that only adds leaves it alone:
that is `OutcomeStands`.

`WakeInv` of `ClusterProofs` is the account of `ServiceProofs` for a controller that
reads its copy a second time. It reads it after a write, a write that changes
something leaves an event to be delivered, and one that changes nothing is not made
on course; so while nothing is to be delivered no pass is at `refetch`. The status
events of a Dask cluster whose kind is enabled all pass the predicate of the watch; those of a RayCluster
do not when only its conditions change, so for Ray the account says that the
cluster is there, and not that its status is recorded.

`RunInv` is the strengthening of `RunningMeansServing`: a copy of the cluster, of
the pods and of the operation says of the scheduler only what was true of it, and
until something is removed the scheduler keeps running and the phase of the cluster
does not go back (`Served`). Only `checkStatus` marks an operation as running. With
`WakeInv` (`Judged`) a Deployment of Dask that cannot create its pods would still be
a warning to record, so there is none when the controller rests.

### The manager

`LeaderInv`: a replica that has read its configuration has the one of environment
and flags, and one that elects is active only while it holds the lease. Two active
replicas would both be the holder.

### The contents of the resources

`ResourcesInv`: a pass works on one version of the operation (`PassOnOneVersion`),
the stored one unless the operation has been queued since; the ports and the
controller's copy, to which the generator adds ports, are what that version makes
them. `PastIsCurrent`: the resource a pass is past is as asked, unless the operation
has been queued since. So at rest, when it has not been, both are as the stored
operation asks. `WithPortsCovers` is why the container has every port the Service
targets, whichever lists are set. `ServiceRoutesToPods` is proved for labels that are
not edited, and `ProbePortIsServed` without empty lists of ports, which no Service
may have; each hypothesis is in the theorem. The generators are functions of the
request, so `ResultIsReadable` is a case analysis of them (`PodsHaveInstance`,
`TTLLongEnough`).

### The loops over pods

`ScanInv`: after some pods each of the two loops holds what the definition of `Pods`
gives for them. The exit loop keeps the first of the exits with the most attempts,
so a step compares one exit with the best of the others (`LeastPosition`, `MinIs`:
a set of positions has a least one, and it is unique); the verdict loop stops at
the first pod that decides. At the end the pods passed are all the pods. The
theorems are about lists of any length up to `MaxPods`.

### The list of conditions

`removeCondition` is a loop that makes a new list, written as a recursive function of
the number of turns. `TurnsExist` shows that there is such a function (its lists can
be extended by one turn, so there is no first number of turns without one), and
`Removes` what it holds at the end: the conditions of the other types, all of them and
in their order, each with the position it had (`Others`). Both are inductions by the
least counterexample (`LeastPosition`). `LogInv` says that a condition lasts from
its transition to its last update, which is not ahead of the clock, and that the next
one on the list does not begin before that. This is more than that updates
are in order: a condition keeps an old transition time when it is logged with another
reason, which is only right because it then is the last one. The clock of the
operator is assumed not to go back. `LogsOnSummaryHolds` is what allows the
controllers' modules to keep `OperationStatus` in place of the list.

### The composition

A step of `Operator` is one of the controller of its operation and leaves the
variables of the others alone, and no step of a controller changes the setup, which
says whose step it is (one step of `ServiceKeepsSetup` and its like per action). So
an operator with a service does what `ServiceController` allows, and for setups that
meet `ServiceSetups` everything that `ServiceProofs` shows holds of it. Conversely
each step of `ServiceController` is one of `Operator`, so none of its behaviours is
missing from what the liveness runs look at. `ServiceRests` and its like say that
the variables a controller does not have keep their initial values. Likewise for
the other two controllers.

### Only model-checked

- Liveness (`EventuallyGone`, `SuccessIsReported`, `IdleIsCulled`, `StopsWriting`,
  `TakesOver`): fairness is out of the prover's reach.

## 5. Not modelled

- `handlePastActiveDeadline` of the Job and KfJob controllers, `getBackOff` of
  the Job, KfJob and Cluster controllers, `GenerateDaskAutoscaler` and the Istio
  functions are never called.
- `NewMetrics` has no caller, so no collector of `metrics.go` is registered.
- Containers, volumes, resources, numbers of replicas, worker groups, start parameters and the options of the Ray
  autoscaler are data that is passed on; messages are formatting.
- Metadata errors (`getInstanceInfo`'s missing labels) are settings:
  `SyncStatuses` and `CollectLogs` are FALSE for such an operation.
- An edit of the labels of a Service operation: the selector of the base Service
  follows and the pods of the existing Deployment do not, so
  `ServiceRoutesToPods` is stated while labels are not edited.
- TLS, webhook and metrics server options of the manager; the HTTP requests of
  the control plane client.
- Generated code (deep copies, OpenAPI) and type declarations.

## 6. Plan

Every safety property that a run checks is proved. What would come next:

1. Progress without fairness: that from each state in which `EventuallyGone` has
   something left to do, some step of the controller, a watch or a timer leads nearer to the end.
2. The wording of pod failures (`pods.go:51-124`), should a property depend on it.
