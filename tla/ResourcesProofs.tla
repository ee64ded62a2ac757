--------------------------- MODULE ResourcesProofs ---------------------------
(***************************************************************************)
(* Theorems about ServiceResources and Generators, for every value of      *)
(* their constants.                                                        *)
(***************************************************************************)
EXTENDS ServiceResources, TLAPS

(***************************************************************************)
(* The inductive invariant.                                                *)
(***************************************************************************)
Deployments ==
  [live : {TRUE}, labels : Labels, selector : Labels, podLabels : Labels,
   podSpec : [image : Images, ports : Seq(Nat) \cup {Unset}, defaulted : {TRUE}]]

Services ==
  [live : {TRUE}, labels : Labels, annotations : Annotations,
   selector : Labels, ports : Seq(Nat)]

\* An operation of another runtime only has what is generated for it.
OtherRuntime ==
  /\ spec \in Requests /\ inst = spec
  /\ deployment = Absent /\ service = Absent
  /\ pc = "generated" => generated = Generated(spec)

\* The controller's copy once the generator has added the ports.
Ported(s) == [s EXCEPT !.containerPorts = withPorts(s.containerPorts, servicePorts(s))]

\* A pass works on one version of the operation, the stored one unless the
\* operation has been queued again.
PassOnOneVersion ==
  pc \in {"deployment", "service", "probe"} =>
    \E s \in OperationSpec :
      /\ ports = servicePorts(s)
      /\ inst = IF pc = "deployment" THEN s ELSE Ported(s)
      /\ ~queued => s = spec
      /\ "labels" \notin Editable => s.labels = spec.labels

\* What the stored operation asks of the pod spec.
AskedPodSpec == [PodSpec(spec, servicePorts(spec)) EXCEPT !.defaulted = TRUE]

\* Once a pass is past a resource, the resource is as asked, unless the operation
\* has been queued again.
PastIsCurrent ==
  /\ ~queued /\ pc \in {"service", "probe", "idle"} =>
       deployment.live /\ deployment.podSpec = AskedPodSpec
  /\ ~queued /\ pc \in {"probe", "idle"} =>
       service.live /\ service.ports = servicePorts(spec) /\ service.selector = spec.labels

ServiceRuntime ==
  /\ spec \in OperationSpec
  /\ deployment \in Deployments \cup {Absent}
  /\ service \in Services \cup {Absent}
  /\ "labels" \notin Editable /\ deployment.live => deployment.podLabels = spec.labels
  /\ PassOnOneVersion
  /\ PastIsCurrent

\* The inductive invariant: an operation of another runtime, or a service with
\* resources that are as asked wherever the pass is past them.
ResourcesInv ==
  /\ queued \in BOOLEAN
  /\ \/ pc \in {"generate", "generated"} /\ OtherRuntime
     \/ pc \in {"idle", "deployment", "service", "probe"} /\ ServiceRuntime

(***************************************************************************)
(* The operators.                                                          *)
(***************************************************************************)
\* The ports of a pass, and those of the container once they are added, are
\* lists of ports; only the latter may be unset.
LEMMA PortTypes ==
  ASSUME NEW s \in OperationSpec
  PROVE  /\ servicePorts(s) \in Seq(Nat)
         /\ Listed(s.containerPorts) \in Seq(Nat)
         /\ withPorts(s.containerPorts, servicePorts(s)) \in Seq(Nat) \cup {Unset}
<1>1. /\ s.ports \in Seq(Nat) \cup {Unset}
      /\ s.containerPorts \in Seq(Nat) \cup {Unset}
  BY ServiceResourcesAssumption DEF OperationSpec
<1>2. GetPodPorts(s.containerPorts) \in Seq(Nat)
  BY <1>1 DEF GetPodPorts, DefaultTargetPort
<1>3. servicePorts(s) \in Seq(Nat) /\ Listed(s.containerPorts) \in Seq(Nat)
  BY <1>1, <1>2 DEF servicePorts, Listed
<1>4. Listed(s.containerPorts) \o servicePorts(s) \in Seq(Nat)
  BY <1>3
<1> QED
  BY <1>1, <1>3, <1>4 DEF withPorts

\* An element of the second of two lists is one of the concatenation.
LEMMA InSecond ==
  ASSUME NEW s \in Seq(Nat), NEW t \in Seq(Nat)
  PROVE  ToSet(t) \subseteq ToSet(s \o t)
<1> SUFFICES ASSUME NEW i \in DOMAIN t
             PROVE  \E j \in DOMAIN (s \o t) : (s \o t)[j] = t[i]
  BY DEF ToSet
<1>1. Len(s) + i \in DOMAIN (s \o t) /\ (s \o t)[Len(s) + i] = t[i]
  OBVIOUS
<1> QED
  BY <1>1

\* Whatever ports a container has, withPorts gives it all that are asked.
LEMMA WithPortsCovers ==
  ASSUME NEW containerPorts \in Seq(Nat) \cup {Unset}, NEW asked \in Seq(Nat)
  PROVE  ToSet(asked) \subseteq ToSet(Listed(withPorts(containerPorts, asked)))
<1>1. Listed(containerPorts) \in Seq(Nat)
  BY DEF Listed
<1>2. CASE ToSet(asked) \subseteq ToSet(Listed(containerPorts))
  BY <1>2 DEF withPorts
<1>3. CASE ~(ToSet(asked) \subseteq ToSet(Listed(containerPorts)))
  <2>1. withPorts(containerPorts, asked) = Listed(containerPorts) \o asked
    BY <1>3 DEF withPorts
  <2>2. Listed(containerPorts) \o asked \in Seq(Nat)
    BY <1>1
  <2>3. Listed(withPorts(containerPorts, asked)) = Listed(containerPorts) \o asked
    BY <2>1, <2>2, GeneratorsAssumption DEF Listed
  <2> QED
    BY <2>3, <1>1, InSecond
<1> QED
  BY <1>2, <1>3

\* A service is no request to another runtime.
LEMMA Disjoint ==
  ASSUME NEW s \in Requests
  PROVE  s \notin OperationSpec
BY DEF Requests, JobRequest, RayRequest, DaskRequest, OperationSpec

\* A generated Deployment, as stored, is one.
LEMMA GeneratedDeployment ==
  ASSUME NEW s \in OperationSpec
  PROVE  LET new == GenerateDeployment(s, servicePorts(s))
         IN  /\ Stored(new) \in Deployments
             /\ Stored(new).podSpec = [PodSpec(s, servicePorts(s)) EXCEPT !.defaulted = TRUE]
             /\ Stored(new).podLabels = s.labels
             /\ Stored(new).live
<1>1. s.labels \in Labels /\ s.image \in Images
  BY DEF OperationSpec
<1> QED
  BY <1>1, PortTypes DEF GenerateDeployment, Stored, PodSpec, Deployments

\* So is one that has been updated; its pods keep their labels.
LEMMA UpdatedDeployment ==
  ASSUME NEW s \in OperationSpec, NEW d \in Deployments
  PROVE  LET copy == CopyDeploymentFields(GenerateDeployment(s, servicePorts(s)), d)
         IN  /\ Stored(copy.to) \in Deployments
             /\ Stored(copy.to).podSpec = [PodSpec(s, servicePorts(s)) EXCEPT !.defaulted = TRUE]
             /\ Stored(copy.to).podLabels = d.podLabels
             /\ Stored(copy.to).live
             /\ ~copy.update =>
                  d.podSpec = [PodSpec(s, servicePorts(s)) EXCEPT !.defaulted = TRUE]
<1>1. s.labels \in Labels /\ s.image \in Images /\ s.explicit \in BOOLEAN
  BY DEF OperationSpec
<1>2. PodSpec(s, servicePorts(s)) \in
        [image : Images, ports : Seq(Nat) \cup {Unset}, defaulted : BOOLEAN]
  BY <1>1, PortTypes DEF PodSpec
<1> DEFINE new == GenerateDeployment(s, servicePorts(s))
           copy == CopyDeploymentFields(new, d)
<1>3. new.labels = s.labels /\ new.podSpec = PodSpec(s, servicePorts(s))
  BY DEF GenerateDeployment
<1>4. /\ copy.to = [d EXCEPT !.labels = s.labels, !.podSpec = PodSpec(s, servicePorts(s))]
      /\ ~copy.update => d.podSpec = PodSpec(s, servicePorts(s))
  BY <1>3 DEF CopyDeploymentFields
<1> HIDE DEF new, copy
<1>5. /\ Stored(copy.to) \in Deployments
      /\ Stored(copy.to).podSpec = [PodSpec(s, servicePorts(s)) EXCEPT !.defaulted = TRUE]
      /\ Stored(copy.to).podLabels = d.podLabels
      /\ Stored(copy.to).live
  BY <1>1, <1>2, <1>4 DEF Stored, Deployments
<1>6. ~copy.update => d.podSpec = [PodSpec(s, servicePorts(s)) EXCEPT !.defaulted = TRUE]
  BY <1>2, <1>4 DEF Deployments
<1> QED
  BY <1>5, <1>6 DEF new, copy

\* The Service that a pass leaves behind, made or updated or found as asked, has
\* the ports and the selector of the version that the pass works on.
LEMMA ServiceAsAsked ==
  ASSUME NEW s \in OperationSpec, NEW v \in Services
  PROVE  LET new  == GenerateService(Ported(s), servicePorts(s))
             copy == CopyServiceFields(new, v)
         IN  /\ new \in Services /\ new.ports = servicePorts(s) /\ new.selector = s.labels
             /\ copy.to \in Services /\ copy.to.ports = servicePorts(s)
             /\ copy.to.selector = s.labels
             /\ ~copy.update => v.ports = servicePorts(s) /\ v.selector = s.labels
<1>1. /\ Ported(s).labels = s.labels /\ s.labels \in Labels
      /\ Ported(s).annotations = s.annotations /\ s.annotations \in Annotations
  BY DEF OperationSpec, Ported
<1>2. servicePorts(s) \in Seq(Nat)
  BY PortTypes
<1> QED
  BY <1>1, <1>2 DEF GenerateService, CopyServiceFields, Services

(***************************************************************************)
(* The steps.                                                              *)
(***************************************************************************)
\* The service part of the invariant, as a fact that a step may use.
LEMMA OfService ==
  ASSUME ResourcesInv, pc \in {"idle", "deployment", "service", "probe"}
  PROVE  ServiceRuntime
BY DEF ResourcesInv

\* Initially no resource is there and nothing has been passed.
LEMMA InitResources ==
  ASSUME Init
  PROVE  ResourcesInv
<1>1. CASE spec \in OperationSpec /\ pc = "idle" /\ queued = TRUE
  BY <1>1 DEF Init, ResourcesInv, ServiceRuntime, PassOnOneVersion, PastIsCurrent, Absent
<1>2. CASE spec \in Requests /\ pc = "generate" /\ queued = FALSE
  BY <1>2 DEF Init, ResourcesInv, OtherRuntime
<1> QED
  BY <1>1, <1>2 DEF Init

\* Fetch takes the stored version.
LEMMA FetchStep ==
  ASSUME ResourcesInv, Fetch
  PROVE  ResourcesInv'
<1>1. ServiceRuntime
  BY OfService DEF Fetch
<1>2. PassOnOneVersion'
  BY <1>1 DEF Fetch, PassOnOneVersion, ServiceRuntime
<1>3. PastIsCurrent'
  BY DEF Fetch, PastIsCurrent
<1>4. ServiceRuntime'
  BY <1>1, <1>2, <1>3 DEF Fetch, ServiceRuntime
<1> QED
  BY <1>4 DEF Fetch, ResourcesInv

\* After reconcileDeployment the pod spec is that of the pass.
LEMMA DeploymentStep ==
  ASSUME ResourcesInv, reconcileDeployment
  PROVE  ResourcesInv'
<1>1. ServiceRuntime /\ queued \in BOOLEAN
  BY OfService DEF reconcileDeployment, ResourcesInv
<1>2. PICK s \in OperationSpec :
        /\ ports = servicePorts(s) /\ inst = s
        /\ ~queued => s = spec
        /\ "labels" \notin Editable => s.labels = spec.labels
  BY <1>1 DEF reconcileDeployment, ServiceRuntime, PassOnOneVersion
<1> DEFINE new  == GenerateDeployment(s, servicePorts(s))
           copy == CopyDeploymentFields(new, deployment)
           asked == [PodSpec(s, servicePorts(s)) EXCEPT !.defaulted = TRUE]
<1>3. /\ \/ ~deployment.live /\ deployment' = Stored(new)
         \/ deployment.live /\ copy.update /\ deployment' = Stored(copy.to)
         \/ deployment.live /\ ~copy.update /\ deployment' = deployment
      /\ inst' = [s EXCEPT !.containerPorts = new.podSpec.ports]
      /\ pc' = "service" /\ UNCHANGED <<spec, ports, service, queued>>
  BY <1>2 DEF reconcileDeployment
<1>4. inst' = Ported(s)
  BY <1>3 DEF GenerateDeployment, PodSpec, Ported
<1> HIDE DEF new, copy, asked
<1>5. deployment.live => deployment \in Deployments
  BY <1>1 DEF ServiceRuntime, Absent
<1>6. /\ deployment' \in Deployments /\ deployment'.live /\ deployment'.podSpec = asked
      /\ "labels" \notin Editable => deployment'.podLabels = spec.labels
  <2>1. CASE ~deployment.live /\ deployment' = Stored(new)
    BY <2>1, <1>2, GeneratedDeployment DEF new, asked
  <2>2. CASE deployment.live /\ copy.update /\ deployment' = Stored(copy.to)
    BY <2>2, <1>1, <1>5, UpdatedDeployment DEF new, copy, asked, ServiceRuntime
  <2>3. CASE deployment.live /\ ~copy.update /\ deployment' = deployment
    BY <2>3, <1>1, <1>5, UpdatedDeployment DEF new, copy, asked, ServiceRuntime
  <2> QED
    BY <1>3, <2>1, <2>2, <2>3
<1>7. PassOnOneVersion'
  BY <1>2, <1>3, <1>4 DEF PassOnOneVersion
<1>8. PastIsCurrent'
  BY <1>2, <1>3, <1>6 DEF PastIsCurrent, AskedPodSpec, asked
<1>9. ServiceRuntime'
  BY <1>1, <1>3, <1>6, <1>7, <1>8 DEF ServiceRuntime
<1> QED
  BY <1>1, <1>3, <1>9 DEF ResourcesInv

\* After reconcileBaseService the Service is that of the pass.
LEMMA ServiceStep ==
  ASSUME ResourcesInv, reconcileBaseService
  PROVE  ResourcesInv'
<1>1. ServiceRuntime /\ queued \in BOOLEAN
  BY OfService DEF reconcileBaseService, ResourcesInv
<1>2. PICK s \in OperationSpec :
        /\ ports = servicePorts(s) /\ inst = Ported(s)
        /\ ~queued => s = spec
        /\ "labels" \notin Editable => s.labels = spec.labels
  BY <1>1 DEF reconcileBaseService, ServiceRuntime, PassOnOneVersion
<1> DEFINE new  == GenerateService(Ported(s), servicePorts(s))
           copy == CopyServiceFields(new, service)
<1>3. /\ \/ ~service.live /\ service' = new
         \/ service.live /\ copy.update /\ service' = copy.to
         \/ service.live /\ ~copy.update /\ service' = service
      /\ pc = "service" /\ pc' = "probe"
      /\ UNCHANGED <<spec, inst, ports, deployment, queued>>
  BY <1>2 DEF reconcileBaseService
<1>4. new \in Services /\ new.ports = servicePorts(s) /\ new.selector = s.labels
  <2>1. /\ Ported(s).labels = s.labels /\ s.labels \in Labels
        /\ Ported(s).annotations = s.annotations /\ s.annotations \in Annotations
    BY DEF OperationSpec, Ported
  <2> QED
    BY <2>1, PortTypes DEF GenerateService, Services
<1>5. service.live => service \in Services
  BY <1>1 DEF ServiceRuntime, Absent
<1>6. service.live =>
        /\ copy.to \in Services /\ copy.to.ports = servicePorts(s)
        /\ copy.to.selector = s.labels
        /\ ~copy.update => service.ports = servicePorts(s) /\ service.selector = s.labels
  BY <1>5, ServiceAsAsked
<1> HIDE DEF new, copy
<1>7. /\ service' \in Services
      /\ service'.ports = servicePorts(s) /\ service'.selector = s.labels
  BY <1>3, <1>4, <1>5, <1>6
<1>8. service'.live
  BY <1>7 DEF Services
<1>9. PassOnOneVersion'
  BY <1>2, <1>3 DEF PassOnOneVersion
<1>10. PastIsCurrent'
  <2>1. ~queued => deployment.live /\ deployment.podSpec = AskedPodSpec
    BY <1>1, <1>3 DEF ServiceRuntime, PastIsCurrent
  <2>2. AskedPodSpec' = AskedPodSpec
    BY <1>3 DEF AskedPodSpec
  <2> QED
    BY <2>1, <2>2, <1>2, <1>3, <1>7, <1>8 DEF PastIsCurrent
<1>11. ServiceRuntime'
  BY <1>1, <1>3, <1>7, <1>9, <1>10 DEF ServiceRuntime
<1> QED
  BY <1>1, <1>3, <1>11 DEF ResourcesInv

\* handleCulling ends the pass.
LEMMA CullingStep ==
  ASSUME ResourcesInv, handleCulling
  PROVE  ResourcesInv'
<1>1. ServiceRuntime /\ queued \in BOOLEAN
  BY OfService DEF handleCulling, ResourcesInv
<1>2. PassOnOneVersion' /\ PastIsCurrent'
  BY <1>1 DEF handleCulling, ServiceRuntime, PassOnOneVersion, PastIsCurrent, AskedPodSpec
<1>3. ServiceRuntime'
  BY <1>1, <1>2 DEF handleCulling, ServiceRuntime
<1> QED
  BY <1>1, <1>3 DEF handleCulling, ResourcesInv

\* The reconciler of another runtime generates from what is stored.
LEMMA GenerateStep ==
  ASSUME ResourcesInv, Generate
  PROVE  ResourcesInv'
BY DEF ResourcesInv, OtherRuntime, Generate

\* An edit is queued, so nothing is promised until the next pass; labels that are
\* not editable stay.
LEMMA EditStep ==
  ASSUME ResourcesInv, Edit
  PROVE  ResourcesInv'
<1>1. /\ spec \in OperationSpec /\ spec' \in OperationSpec /\ queued' = TRUE
      /\ UNCHANGED <<inst, ports, deployment, service, generated, pc>>
  BY DEF Edit
<1>2. ServiceRuntime /\ pc \in {"idle", "deployment", "service", "probe"}
  BY <1>1, Disjoint DEF ResourcesInv, OtherRuntime
<1>3. "labels" \notin Editable => spec'.labels = spec.labels
  <2>1. PICK f \in Editable : spec' = [spec EXCEPT ![f] = spec'[f]]
    BY DEF Edit
  <2>2. f # "labels" => spec'.labels = spec.labels
    BY <2>1, <1>1 DEF OperationSpec
  <2> QED
    BY <2>2
<1>4. PassOnOneVersion'
  BY <1>1, <1>2, <1>3 DEF ServiceRuntime, PassOnOneVersion
<1>5. PastIsCurrent'
  BY <1>1 DEF PastIsCurrent
<1>6. ServiceRuntime'
  BY <1>1, <1>2, <1>3, <1>4, <1>5 DEF ServiceRuntime
<1> QED
  BY <1>1, <1>2, <1>6 DEF ResourcesInv

\* So is a removal.
LEMMA RemovalStep ==
  ASSUME ResourcesInv, Removal
  PROVE  ResourcesInv'
<1>1. /\ deployment' \in {deployment, Absent} /\ service' \in {service, Absent}
      /\ deployment.live \/ service.live
      /\ queued' = TRUE /\ UNCHANGED <<spec, inst, ports, pc>>
  BY DEF Removal
<1>2. ServiceRuntime /\ pc \in {"idle", "deployment", "service", "probe"}
  BY <1>1 DEF ResourcesInv, OtherRuntime, Absent
<1>3. PassOnOneVersion' /\ PastIsCurrent'
  BY <1>1, <1>2 DEF ServiceRuntime, PassOnOneVersion, PastIsCurrent
<1>4. ServiceRuntime'
  BY <1>1, <1>2, <1>3 DEF ServiceRuntime, Absent
<1> QED
  BY <1>1, <1>2, <1>4 DEF ResourcesInv

\* In every reachable state what a pass is past is as asked, and another runtime
\* has what its generator made of the request.
THEOREM ResourcesInvariance == Spec => []ResourcesInv
<1>1. Init => ResourcesInv
  BY InitResources
<1>2. ResourcesInv /\ [Next]_vars => ResourcesInv'
  <2> SUFFICES ASSUME ResourcesInv, [Next]_vars
               PROVE  ResourcesInv'
    OBVIOUS
  <2>1. CASE Next
    BY <2>1, FetchStep, DeploymentStep, ServiceStep, CullingStep, GenerateStep,
       EditStep, RemovalStep DEF Next, Reconcile
  <2>2. CASE UNCHANGED vars
    BY <2>2 DEF vars, ResourcesInv, OtherRuntime, ServiceRuntime, PassOnOneVersion,
       PastIsCurrent, AskedPodSpec
  <2> QED
    BY <2>1, <2>2
<1> QED
  BY <1>1, <1>2, PTL DEF Spec

(***************************************************************************)
(* The properties.                                                         *)
(***************************************************************************)
\* EditsArrive: an edit in the middle of a pass is not lost; at rest the pod spec
\* and the ports are those of the operation as it is stored.
THEOREM EditsArriveHolds == Spec => []EditsArrive
<1>1. ResourcesInv => EditsArrive
  BY DEF ResourcesInv, ServiceRuntime, PastIsCurrent, AskedPodSpec, EditsArrive, AtRest
<1> QED
  BY <1>1, ResourcesInvariance, PTL

\* ServiceRoutesToPods: at rest the base Service selects the Deployment's pods
\* and targets ports that they have.  The labels of the operation must stay: the
\* pods of a Deployment that exists keep the labels it was made with
\* (CopyDeploymentFields), while the selector of the Service is copied.
THEOREM ServiceRoutesToPodsHolds ==
  ASSUME "labels" \notin Editable
  PROVE  Spec => []ServiceRoutesToPods
<1>1. ASSUME ResourcesInv, AtRest
      PROVE  /\ deployment.live /\ service.live
             /\ service.selector = deployment.podLabels
             /\ ToSet(service.ports) \subseteq ToSet(Listed(deployment.podSpec.ports))
  <2>1. ServiceRuntime
    BY <1>1, OfService DEF AtRest
  <2>2. /\ deployment.live /\ deployment.podSpec = AskedPodSpec
        /\ service.live /\ service.ports = servicePorts(spec)
        /\ service.selector = spec.labels /\ deployment.podLabels = spec.labels
    BY <1>1, <2>1 DEF ServiceRuntime, PastIsCurrent, AtRest
  <2>3. deployment.podSpec.ports = withPorts(spec.containerPorts, servicePorts(spec))
    BY <2>2 DEF AskedPodSpec, PodSpec
  <2>4. spec.containerPorts \in Seq(Nat) \cup {Unset} /\ servicePorts(spec) \in Seq(Nat)
    BY <2>1, PortTypes, ServiceResourcesAssumption DEF ServiceRuntime, OperationSpec
  <2> QED
    BY <2>2, <2>3, <2>4, WithPortsCovers
<1>2. ResourcesInv => ServiceRoutesToPods
  BY <1>1 DEF ServiceRoutesToPods
<1> QED
  BY <1>2, ResourcesInvariance, PTL

\* ProbePortIsServed: the port the probe works out from a copy with more container
\* ports is one of the pass.  A list that is set has a port in it: the API server
\* accepts no Service without ports.
THEOREM ProbePortIsServedHolds ==
  ASSUME <<>> \notin Ports \cup ContainerPorts
  PROVE  Spec => []ProbePortIsServed
<1>1. ASSUME NEW list \in Seq(Nat), list # <<>>
      PROVE  list[1] \in ToSet(list)
  BY <1>1 DEF ToSet
<1>2. ASSUME NEW s \in OperationSpec
      PROVE  probePort(Ported(s)) \in ToSet(servicePorts(s))
  <2>1. /\ s.ports \in Seq(Nat) \cup {Unset} /\ s.ports # <<>>
        /\ s.containerPorts \in Seq(Nat) \cup {Unset} /\ s.containerPorts # <<>>
    <3>1. /\ s.ports \in Ports \cup {Unset}
          /\ s.containerPorts \in ContainerPorts \cup {Unset}
      BY DEF OperationSpec
    <3>2. <<>> \in Seq(Nat)
      OBVIOUS
    <3>3. Unset # <<>>
      BY <3>2, GeneratorsAssumption
    <3> QED
      BY <3>1, <3>3, ServiceResourcesAssumption
  <2>2. /\ Ported(s).ports = s.ports
        /\ Ported(s).containerPorts = withPorts(s.containerPorts, servicePorts(s))
    BY DEF OperationSpec, Ported
  <2>3. CASE s.ports # Unset
    BY <2>1, <2>2, <2>3, <1>1 DEF probePort, servicePorts
  <2>4. CASE s.ports = Unset /\ s.containerPorts = Unset
    <3>1. servicePorts(s) = <<DefaultTargetPort>> /\ <<DefaultTargetPort>> \in Seq(Nat)
      BY <2>4 DEF servicePorts, GetPodPorts, DefaultTargetPort
    <3>2. DefaultTargetPort \in ToSet(<<DefaultTargetPort>>)
      BY DEF ToSet
    <3>3. withPorts(s.containerPorts, servicePorts(s)) = <<DefaultTargetPort>>
      BY <2>4, <3>1, <3>2 DEF withPorts, Listed, ToSet
    <3>4. <<DefaultTargetPort>> # Unset
      BY <3>1, GeneratorsAssumption
    <3> QED
      BY <2>2, <2>4, <3>1, <3>2, <3>3, <3>4 DEF probePort, GetPodPorts
  <2>5. CASE s.ports = Unset /\ s.containerPorts # Unset
    <3>1. servicePorts(s) = s.containerPorts
      BY <2>5 DEF servicePorts, GetPodPorts
    <3>2. withPorts(s.containerPorts, servicePorts(s)) = s.containerPorts
      BY <2>5, <3>1 DEF withPorts, Listed
    <3> QED
      BY <2>1, <2>2, <2>5, <3>1, <3>2, <1>1 DEF probePort, GetPodPorts
  <2> QED
    BY <2>3, <2>4, <2>5
<1>3. ResourcesInv => ProbePortIsServed
  BY <1>2 DEF ResourcesInv, ServiceRuntime, PassOnOneVersion, ProbePortIsServed
<1> QED
  BY <1>3, ResourcesInvariance, PTL

\* GetTTL never goes below the minimum, nor below what is asked.
LEMMA TTLLongEnough ==
  ASSUME NEW ttl \in TTLs \cup {Unset}
  PROVE  GetTTL(ttl) >= MinTTLValue /\ (ttl # Unset => GetTTL(ttl) >= ttl)
BY GeneratorsAssumption DEF GetTTL, MinTTLValue

\* What wins in Merged, and what is left.
LEMMA MergedAt ==
  ASSUME NEW first, NEW second, NEW k \in DOMAIN first \cup DOMAIN second
  PROVE  Merged(first, second)[k] = IF k \in DOMAIN first THEN first[k] ELSE second[k]
BY DEF Merged

\* The pods of every generator have the instance label of the operation.
LEMMA PodsHaveInstance ==
  ASSUME NEW r \in Requests,
         r.kind = "DaskCluster" => "instance" \notin DOMAIN r.template
  PROVE  \A i \in DOMAIN Generated(r).pods : Generated(r).pods[i]["instance"] = labels["instance"]
<1>1. DOMAIN labels = {"instance", "name"}
  BY DEF labels
<1>2. ASSUME NEW map, "instance" \in DOMAIN map
      PROVE  /\ "instance" \in DOMAIN Without(map, "name")
             /\ Without(map, "name")["instance"] = map["instance"]
  BY <1>2 DEF Without
<1>3. \A t : generateKFReplica(t)["instance"] = labels["instance"]
  BY <1>1, MergedAt DEF generateKFReplica
<1>4. generateWorkerGroupSpec["instance"] = labels["instance"]
  BY <1>1, <1>2 DEF generateWorkerGroupSpec
<1>5. \A t : generateHeadGroupSpec(t)["instance"] = labels["instance"]
  BY <1>1, <1>2, MergedAt DEF generateHeadGroupSpec
<1>6. \A t : "instance" \notin DOMAIN t => generateClusterSpec(t)["instance"] = labels["instance"]
  BY <1>1, MergedAt DEF generateClusterSpec
<1>7. CASE r.kind = "Job"
  BY <1>7 DEF Generated, GenerateJob
<1>8. CASE r.kind \in {"TFJob", "PytorchJob", "MPIJob"}
  <2>1. Generated(r).pods = <<generateKFReplica(r.template)>>
    BY <1>8 DEF Generated, GenerateTFJob, GeneratePytorchJob, GenerateMPIJob, GenerateKfJob
  <2> QED
    BY <2>1, <1>3
<1>9. CASE r.kind = "RayCluster"
  <2>1. r.workers \in Nat
    BY <1>9, GeneratorsAssumption DEF Requests, JobRequest, RayRequest, DaskRequest
  <2> DEFINE head == generateHeadGroupSpec(r.template)
             workers == [i \in 1..r.workers |-> generateWorkerGroupSpec]
  <2>2. Generated(r).pods = <<head>> \o workers
    BY <1>9 DEF Generated, GenerateRayCluster
  <2>3. <<head>> \in Seq({head, generateWorkerGroupSpec}) /\ Len(<<head>>) = 1
    OBVIOUS
  <2>4. workers \in Seq({head, generateWorkerGroupSpec})
    BY <2>1
  <2>5. \A i \in DOMAIN (<<head>> \o workers) :
          (<<head>> \o workers)[i] \in {head, generateWorkerGroupSpec}
    <3> HIDE DEF head, workers
    <3>1. <<head>> \o workers \in Seq({head, generateWorkerGroupSpec})
      BY <2>3, <2>4
    <3> QED
      BY <3>1
  <2> HIDE DEF head, workers
  <2>6. head["instance"] = labels["instance"]
    BY <1>5 DEF head
  <2> QED
    BY <2>2, <2>5, <2>6, <1>4
<1>10. CASE r.kind = "DaskCluster"
  <2>1. Generated(r).pods = <<generateClusterSpec(r.template), generateClusterSpec(r.template)>>
    BY <1>10 DEF Generated, GenerateDaskCluster
  <2> QED
    BY <2>1, <1>6, <1>10
<1> QED
  BY <1>7, <1>8, <1>9, <1>10 DEF Requests, JobRequest, RayRequest, DaskRequest

\* ResultIsReadable: for every template and every TTL the pods are found by their
\* instance label, and a finished job stays for long enough.
THEOREM ResultIsReadableHolds == Spec => []ResultIsReadable
<1>1. ASSUME NEW r \in JobRequest
      PROVE  Generated(r).ttl = GetTTL(r.ttl) /\ r.ttl \in TTLs \cup {Unset}
  BY DEF JobRequest, Generated, GenerateJob, GenerateTFJob, GeneratePytorchJob,
     GenerateMPIJob, GenerateKfJob
<1>2. ASSUME ResourcesInv, pc = "generated"
      PROVE  spec \in Requests /\ generated = Generated(spec)
  BY <1>2 DEF ResourcesInv, OtherRuntime
<1>3. ResourcesInv => ResultIsReadable
  BY <1>1, <1>2, TTLLongEnough, PodsHaveInstance DEF ResultIsReadable
<1> QED
  BY <1>3, ResourcesInvariance, PTL
=============================================================================
