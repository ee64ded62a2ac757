----------------------------- MODULE Generators -----------------------------
(***************************************************************************)
(* The resources that the operator generates for its runtimes              *)
(* (helpers/managers: jobs, kfcommon, tfjob, pytorchjob, mpijob,           *)
(* raycluster, daskcluster): which labels their pods get, and how long a   *)
(* finished job stays.  They are functions of what is asked for;           *)
(* ServiceResources applies them to every request of a small set.          *)
(*                                                                         *)
(* A map is a function from keys to values; a setting that is not set is   *)
(* Unset.  The conversion to an unstructured object keeps every field that *)
(* is set, so it is left out.                                              *)
(***************************************************************************)
EXTENDS Integers, Sequences

CONSTANTS
  Unset,
  Templates,   \* the labels a pod template may have
  TTLs,        \* what TTLSecondsAfterFinished may be, besides Unset
  MaxGroups    \* bound: worker groups of one Ray cluster

ASSUME GeneratorsAssumption ==
  /\ TTLs \subseteq Nat /\ MaxGroups \in Nat
  /\ Unset \notin Nat \cup Seq(Nat)

\* The labels of the operation.
labels == [instance |-> "op", name |-> "run"]

JobRequest ==
  [kind : {"Job", "TFJob", "PytorchJob", "MPIJob"}, template : Templates,
   ttl : TTLs \cup {Unset}]

RayRequest == [kind : {"RayCluster"}, template : Templates, workers : 0..MaxGroups]

DaskRequest == [kind : {"DaskCluster"}, template : Templates]

Requests == JobRequest \cup RayRequest \cup DaskRequest

(***************************************************************************)
(* How long a finished job stays, in seconds.                              *)
(***************************************************************************)
MinTTLValue == 5

GetTTL(ttl) == IF ttl = Unset \/ ttl < MinTTLValue THEN MinTTLValue ELSE ttl

(***************************************************************************)
(* The generators.                                                         *)
(***************************************************************************)
\* Two maps as one; what the first has wins.
Merged(first, second) ==
  [k \in DOMAIN first \cup DOMAIN second |->
     IF k \in DOMAIN first THEN first[k] ELSE second[k]]

Without(map, key) == [k \in DOMAIN map \ {key} |-> map[k]]

GenerateJob(r) == [pods |-> <<labels>>, ttl |-> GetTTL(r.ttl)]

\* Bug: the labels of the template win.
generateKFReplicaOfTemplate(template) == Merged(template, labels)

generateKFReplica(template) == Merged(labels, template)

GenerateKfJob(r) == [pods |-> <<generateKFReplica(r.template)>>, ttl |-> GetTTL(r.ttl)]

GenerateTFJob(r) == GenerateKfJob(r)

GeneratePytorchJob(r) == GenerateKfJob(r)

GenerateMPIJob(r) == GenerateKfJob(r)

\* KubeRay uses the name label itself.
generateHeadGroupSpec(template) ==
  Merged(Without(labels, "name"), Without(template, "name"))

generateWorkerGroupSpec == Without(labels, "name")

GenerateRayCluster(r) ==
  [pods |-> <<generateHeadGroupSpec(r.template)>>
              \o [i \in 1..r.workers |-> generateWorkerGroupSpec]]

generateClusterSpec(template) == Merged(template, labels)

\* The workers and the scheduler.
GenerateDaskCluster(r) ==
  [pods |-> <<generateClusterSpec(r.template), generateClusterSpec(r.template)>>]

\* What the reconciler of the kind generates.
Generated(r) ==
  CASE r.kind = "Job"         -> GenerateJob(r)
    [] r.kind = "TFJob"       -> GenerateTFJob(r)
    [] r.kind = "PytorchJob"  -> GeneratePytorchJob(r)
    [] r.kind = "MPIJob"      -> GenerateMPIJob(r)
    [] r.kind = "RayCluster"  -> GenerateRayCluster(r)
    [] r.kind = "DaskCluster" -> GenerateDaskCluster(r)
=============================================================================
