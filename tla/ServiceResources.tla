--------------------------- MODULE ServiceResources ---------------------------
(***************************************************************************)
(* What the service controller asks the cluster for: the Deployment and    *)
(* the base Service it generates from the operation, and the fields it     *)
(* copies onto the ones that exist (helpers/managers/deployments.go and    *)
(* services.go), while the user edits the operation.  ServiceController    *)
(* has the statuses and the caches; here the resources have contents and   *)
(* are read as they are.  An operation of another runtime has what the     *)
(* generator of its kind makes of it.                                      *)
(*                                                                         *)
(* A label or an annotation map is a function from keys to values, a list  *)
(* of ports a sequence, and a field that is not set is Unset.              *)
(***************************************************************************)
EXTENDS Generators, SequencesExt

CONSTANTS
  Labels, Annotations,   \* the maps an operation may have
  Ports, ContainerPorts, \* the lists it may have, besides Unset
  Images,
  Editable,              \* the fields that are edited
  MaxEdits, MaxRemovals  \* bounds: edits, and removals by somebody else

ASSUME ServiceResourcesAssumption ==
  /\ \A l \in Labels : "instance" \in DOMAIN l
  /\ Ports \cup ContainerPorts \subseteq Seq(Nat)
  /\ Editable \subseteq {"labels", "annotations", "ports", "containerPorts", "image"}
  /\ {MaxEdits, MaxRemovals} \subseteq Nat

\* The part of a Service operation that its resources are made of.  `explicit`
\* says that the template spells out every field the API server would default.
OperationSpec ==
  [labels : Labels, annotations : Annotations, ports : Ports \cup {Unset},
   containerPorts : ContainerPorts \cup {Unset}, image : Images, explicit : BOOLEAN]

VARIABLES
  spec,        \* the operation as stored, a Service or one of Requests
  inst,        \* the controller's copy of it
  ports,       \* the ports of this pass
  deployment, service,
  generated,   \* what an operation of another runtime has asked the cluster for
  pc, queued,
  edits, removals

vars == <<spec, inst, ports, deployment, service, generated, pc, queued, edits, removals>>

Absent == [live |-> FALSE]

Init ==
  /\ \/ spec \in OperationSpec /\ pc = "idle" /\ queued = TRUE
     \/ spec \in Requests /\ pc = "generate" /\ queued = FALSE
  /\ inst = spec /\ ports = <<>>
  /\ deployment = Absent /\ service = Absent /\ generated = Absent
  /\ edits = 0 /\ removals = 0

(***************************************************************************)
(* The generators.  Deployment and pods get the labels of the operation.   *)
(***************************************************************************)
DefaultTargetPort == 6006

GetPodPorts(containerPorts) ==
  IF containerPorts = Unset THEN <<DefaultTargetPort>> ELSE containerPorts

\* Bug: ports of the operation are not looked at.
servicePortsOfContainer(s) == GetPodPorts(s.containerPorts)

servicePorts(s) == IF s.ports # Unset THEN s.ports ELSE GetPodPorts(s.containerPorts)

Listed(containerPorts) == IF containerPorts = Unset THEN <<>> ELSE containerPorts

\* Bug: missing ports are not added.
withPortsKept(containerPorts, asked) == containerPorts

\* When a port is missing, all of them are appended, those that are there as
\* well.
withPorts(containerPorts, asked) ==
  IF ToSet(asked) \subseteq ToSet(Listed(containerPorts))
  THEN containerPorts
  ELSE Listed(containerPorts) \o asked

PodSpec(s, asked) ==
  [image |-> s.image, ports |-> withPorts(s.containerPorts, asked), defaulted |-> s.explicit]

GenerateDeployment(s, asked) ==
  [live |-> TRUE, labels |-> s.labels, selector |-> s.labels, podLabels |-> s.labels,
   podSpec |-> PodSpec(s, asked)]

GenerateService(s, asked) ==
  [live |-> TRUE, labels |-> s.labels, annotations |-> s.annotations,
   selector |-> s.labels, ports |-> asked]

(***************************************************************************)
(* The copies.  Only keys that the existing map has are compared, then the *)
(* whole map is taken over.                                                *)
(***************************************************************************)
KeysDiffer(from, to) == \E k \in DOMAIN to : k \notin DOMAIN from \/ from[k] # to[k]

\* Bug: the pod spec is compared and not copied.
CopyDeploymentFieldsUncopied(from, to) ==
  [update |-> KeysDiffer(from.labels, to.labels) \/ to.podSpec # from.podSpec,
   to |-> [to EXCEPT !.labels = from.labels]]

CopyDeploymentFields(from, to) ==
  [update |-> KeysDiffer(from.labels, to.labels) \/ to.podSpec # from.podSpec,
   to |-> [to EXCEPT !.labels = from.labels, !.podSpec = from.podSpec]]

CopyServiceFields(from, to) ==
  [update |-> \/ KeysDiffer(from.labels, to.labels)
              \/ KeysDiffer(from.annotations, to.annotations)
              \/ to.selector # from.selector
              \/ to.ports # from.ports,
   to |-> [to EXCEPT !.labels = from.labels, !.annotations = from.annotations,
                     !.selector = from.selector, !.ports = from.ports]]

(***************************************************************************)
(* A pass: the Deployment, the base Service, the probe of handleCulling.   *)
(***************************************************************************)
\* The API server fills in the defaults of a pod spec.
Stored(d) == [d EXCEPT !.podSpec.defaulted = TRUE]

Fetch ==
  /\ pc = "idle" /\ queued
  /\ queued' = FALSE
  /\ inst' = spec /\ ports' = servicePorts(spec)
  /\ pc' = "deployment"
  /\ UNCHANGED <<spec, deployment, service, generated, edits, removals>>

\* The generated pod spec shares the containers of the controller's copy, so
\* that copy gets the ports that were added.
reconcileDeployment ==
  /\ pc = "deployment"
  /\ LET new  == GenerateDeployment(inst, ports)
         copy == CopyDeploymentFields(new, deployment)
     IN  /\ \/ ~deployment.live /\ deployment' = Stored(new)
            \/ deployment.live /\ copy.update /\ deployment' = Stored(copy.to)
            \/ deployment.live /\ ~copy.update /\ UNCHANGED deployment
         /\ inst' = [inst EXCEPT !.containerPorts = new.podSpec.ports]
  /\ pc' = "service"
  /\ UNCHANGED <<spec, ports, service, generated, queued, edits, removals>>

reconcileBaseService ==
  /\ pc = "service"
  /\ LET new  == GenerateService(inst, ports)
         copy == CopyServiceFields(new, service)
     IN  \/ ~service.live /\ service' = new
         \/ service.live /\ copy.update /\ service' = copy.to
         \/ service.live /\ ~copy.update /\ UNCHANGED service
  /\ pc' = "probe"
  /\ UNCHANGED <<spec, inst, ports, deployment, generated, queued, edits, removals>>

\* The port of the probe when none is configured, worked out once more.
probePort(s) ==
  IF s.ports # Unset /\ s.ports # <<>> THEN s.ports[1] ELSE GetPodPorts(s.containerPorts)[1]

handleCulling ==
  /\ pc = "probe"
  /\ pc' = "idle"
  /\ UNCHANGED <<spec, inst, ports, deployment, service, generated, queued, edits, removals>>

Reconcile == Fetch \/ reconcileDeployment \/ reconcileBaseService \/ handleCulling

\* The reconciler of another runtime generates its resource.
Generate ==
  /\ pc = "generate"
  /\ generated' = Generated(inst) /\ pc' = "generated"
  /\ UNCHANGED <<spec, inst, ports, deployment, service, queued, edits, removals>>

(***************************************************************************)
(* The user edits a field, somebody removes a resource; both are watched.  *)
(***************************************************************************)
Edit ==
  /\ spec \in OperationSpec /\ edits < MaxEdits /\ edits' = edits + 1
  /\ spec' \in {s \in OperationSpec :
                  \E f \in Editable : s = [spec EXCEPT ![f] = s[f]] /\ s # spec}
  /\ queued' = TRUE
  /\ UNCHANGED <<inst, ports, deployment, service, generated, pc, removals>>

Removal ==
  /\ removals < MaxRemovals /\ removals' = removals + 1
  /\ \/ deployment.live /\ deployment' = Absent /\ UNCHANGED service
     \/ service.live /\ service' = Absent /\ UNCHANGED deployment
  /\ queued' = TRUE
  /\ UNCHANGED <<spec, inst, ports, generated, pc, edits>>

Next == Reconcile \/ Generate \/ Edit \/ Removal

Spec == Init /\ [][Next]_vars

(***************************************************************************)
(* Properties.                                                             *)
(***************************************************************************)
AtRest == pc = "idle" /\ ~queued

\* When the controller is at rest, the base Service selects the pods of the
\* Deployment and every port it targets is one of their container ports,
\* whatever mixture of edits, old resources and removals led there.
ServiceRoutesToPods ==
  AtRest =>
    /\ deployment.live /\ service.live
    /\ \A k \in DOMAIN service.selector :
         k \in DOMAIN deployment.podLabels /\ deployment.podLabels[k] = service.selector[k]
    /\ ToSet(service.ports) \subseteq ToSet(Listed(deployment.podSpec.ports))

\* At rest the last edit of the template and of the ports has arrived: an edit
\* in the middle of a pass, which works on an older copy, is not lost.
EditsArrive ==
  AtRest =>
    /\ deployment.podSpec = [PodSpec(spec, servicePorts(spec)) EXCEPT !.defaulted = TRUE]
    /\ service.ports = servicePorts(spec)

\* The port that the probe works out for itself, from a copy that the generator
\* has changed in between, is one that the base Service of this pass serves.
ProbePortIsServed == pc = "probe" => probePort(inst) \in ToSet(ports)

\* The operator can read how a run ended.  Its pods have the instance label that
\* they are looked up by, whatever labels the template has (Dask is the exception,
\* where a template with an instance label of its own keeps it); and a finished
\* job stays for at least the time the operator needs to read its end, and for as
\* long as was asked, with zero, unset and small values at the edge.
ResultIsReadable ==
  pc = "generated" =>
    /\ (spec.kind = "DaskCluster" => "instance" \notin DOMAIN spec.template) =>
         \A i \in DOMAIN generated.pods : generated.pods[i].instance = labels.instance
    /\ spec \in JobRequest =>
         generated.ttl >= MinTTLValue /\ (spec.ttl # Unset => generated.ttl >= spec.ttl)
=============================================================================
