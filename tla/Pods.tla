-------------------------------- MODULE Pods --------------------------------
(***************************************************************************)
(* What the controllers read off the pods of an operation                  *)
(* (internal/helpers/managers/pods.go).                                    *)
(*                                                                         *)
(* A container status is a record                                          *)
(*    name      the container,                                             *)
(*    state     "waiting", "running" or "terminated",                      *)
(*    reason    the reason of a waiting or terminated state,               *)
(*    code      the exit code of a terminated state,                       *)
(*    lastCode, lastReason  the same of LastTerminationState, with NoCode  *)
(*              when there is none,                                        *)
(*    restarts  RestartCount,                                              *)
(*    ready     Ready.                                                     *)
(* A pod is a record                                                       *)
(*    phase       Status.Phase,                                            *)
(*    conds       "nil", "ready" or "notReady": Status.Conditions is nil,  *)
(*                holds no complaint, or holds an Unschedulable or a       *)
(*                ContainersNotReady condition,                            *)
(*    main        the name of Spec.Containers[0],                          *)
(*    inits       the statuses of the init containers,                     *)
(*    containers  the statuses of the containers.                          *)
(* Messages are left out: a verdict is told from another by its reason.    *)
(* A loop that returns at its first match is written as the choice of the  *)
(* least index that matches.                                               *)
(***************************************************************************)
EXTENDS Integers, Sequences, FiniteSetsExt

NoCode == -1

(***************************************************************************)
(* The main container and how it exited.                                   *)
(***************************************************************************)
MainIndices(pod) == {i \in DOMAIN pod.containers : pod.containers[i].name = pod.main}

HasMainContainerStatus(pod) == MainIndices(pod) # {}

getMainContainerStatus(pod) == pod.containers[Min(MainIndices(pod))]

NoExit == [code |-> 0, reason |-> "", attempts |-> 0, seen |-> FALSE]

\* A running container only counts its previous exit when that one failed; a
\* waiting container counts any previous exit.  `attempts` is
\* ContainerFailedAttempts: the restarts, and the exit seen now.
getPodMainContainerExitStatus(pod) ==
  IF ~HasMainContainerStatus(pod)
  THEN NoExit
  ELSE LET cs == getMainContainerStatus(pod)
       IN  IF cs.state = "terminated"
           THEN [code |-> cs.code, reason |-> cs.reason,
                 attempts |-> cs.restarts + 1, seen |-> TRUE]
           ELSE IF \/ cs.lastCode = NoCode
                   \/ cs.state = "running" /\ cs.lastCode = 0
                THEN NoExit
                ELSE [code |-> cs.lastCode, reason |-> cs.lastReason,
                      attempts |-> cs.restarts, seen |-> TRUE]

\* The failed exit with the most attempts, the earliest such pod on a tie;
\* without a failed exit, the first clean one.
GetMainContainerExitStatus(pods) ==
  LET exit(i) == getPodMainContainerExitStatus(pods[i])
      exited  == {i \in DOMAIN pods : exit(i).seen}
      failed  == {i \in exited : exit(i).code # 0}
      worse(i, j) == \/ exit(i).attempts > exit(j).attempts
                     \/ exit(i).attempts = exit(j).attempts /\ i <= j
  IN  IF failed # {}
      THEN exit(CHOOSE i \in failed : \A j \in failed : worse(i, j))
      ELSE IF exited # {}
           THEN exit(Min(exited))
           ELSE NoExit

IsMainContainerRunning(pods) ==
  \E i \in DOMAIN pods :
     /\ HasMainContainerStatus(pods[i])
     /\ getMainContainerStatus(pods[i]).state = "running"

(***************************************************************************)
(* Pods that cannot start.                                                 *)
(***************************************************************************)
IsInvalidImage(cs) == cs.state = "waiting" /\ cs.reason = "InvalidImageName"

GetInvalidImageName(pods) ==
  \E i \in DOMAIN pods :
     \/ \E k \in DOMAIN pods[i].inits : IsInvalidImage(pods[i].inits[k])
     \/ \E k \in DOMAIN pods[i].containers : IsInvalidImage(pods[i].containers[k])

isPullingImage(cs) ==
  /\ ~cs.ready
  /\ cs.state = "waiting"
  /\ cs.reason \in {"ImagePullBackOff", "ErrImagePull"}

Verdict(type, why) == [type |-> type, why |-> why]

NoVerdict == Verdict("", "")

ContainerFailed(pod) ==
  \E k \in DOMAIN pod.containers :
     pod.containers[k].state = "terminated" /\ pod.containers[k].code > 0

InitPulls(pod) == \E k \in DOMAIN pod.inits : isPullingImage(pod.inits[k])

ContainerPulls(pod) == \E k \in DOMAIN pod.containers : isPullingImage(pod.containers[k])

NotStarted(pod) == pod.phase # "Running" /\ pod.conds # "nil"

\* What one iteration of HasUnschedulablePods returns for its pod.  No pod has
\* the phase Unschedulable that the code also asks for.
PodVerdict(pod) ==
  IF pod.phase = "Failed"
  THEN Verdict("Failed", IF ContainerFailed(pod) THEN "ExitCode" ELSE "PodFailed")
  ELSE IF pod.phase = "Succeeded"
  THEN NoVerdict
  ELSE IF NotStarted(pod) /\ InitPulls(pod)
  THEN Verdict("Warning", "InitContainerImagePullBackOff")
  ELSE IF NotStarted(pod) /\ ContainerPulls(pod)
  THEN Verdict("Warning", "ImagePullBackOff")
  ELSE IF NotStarted(pod) /\ pod.conds = "notReady"
  THEN Verdict("Warning", "ContainersNotReady")
  ELSE IF pod.phase = "Pending" /\ pod.conds = "nil"
  THEN Verdict("Warning", "PodPending")
  ELSE NoVerdict

\* Does the iteration return at this pod?  A succeeded pod ends the loop with
\* the empty verdict.
Decides(pod) == pod.phase = "Succeeded" \/ PodVerdict(pod) # NoVerdict

HasUnschedulablePods(pods) ==
  IF pods = <<>>
  THEN Verdict("Starting", "PodNotReady")
  ELSE LET deciding == {i \in DOMAIN pods : Decides(pods[i])}
       IN  IF deciding # {} THEN PodVerdict(pods[Min(deciding)]) ELSE NoVerdict
=============================================================================
