\* The template, the ports and the annotations of a service are edited, also during
\* a pass; every request to the generators of the other runtimes.
SPECIFICATION Spec
CONSTANTS
  Unset = Unset
  Labels <- OneLabel
  Annotations <- SomeAnnotations
  Ports <- SomePorts
  ContainerPorts <- SomeContainerPorts
  Images = {"a", "b"}
  Editable = {"annotations", "ports", "containerPorts", "image"}
  MaxEdits = 2
  MaxRemovals = 1
  Templates <- SomeTemplates
  TTLs = {0, 4, 6}
  MaxGroups = 2
INVARIANTS ServiceRoutesToPods EditsArrive ProbePortIsServed ResultIsReadable
\* A controller at rest has nothing to do.
CHECK_DEADLOCK FALSE
