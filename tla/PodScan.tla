------------------------------- MODULE PodScan -------------------------------
(***************************************************************************)
(* The loops of managers/pods.go over the pods of an operation, one pod    *)
(* per step: GetMainContainerExitStatus, which keeps the worst failed exit *)
(* and the first clean one, and HasUnschedulablePods, which returns at the *)
(* first pod that decides.  Module Pods defines what the loops compute     *)
(* without saying how; here the loops are checked to compute it.           *)
(***************************************************************************)
EXTENDS Pods

CONSTANTS
  PodSet,   \* the pods that occur
  MaxPods   \* bound on their number

ASSUME MaxPodsAssumption == MaxPods \in Nat

\* The containers of a pod are a list, and RestartCount counts.
ASSUME PodSetAssumption ==
  \A pod \in PodSet :
    /\ DOMAIN pod.containers \subseteq Nat
    /\ \A k \in DOMAIN pod.containers : pod.containers[k].restarts \in Nat

VARIABLES
  pods,
  next,       \* the pod the exit loop looks at next
  failed,     \* failedStatus, NoExit for nil
  succeeded,  \* succeededStatus, NoExit for nil
  scanned,    \* the pods the unschedulable loop has passed
  verdict     \* its result, "open" while it runs

scanVars == <<pods, next, failed, succeeded, scanned, verdict>>

Open == Verdict("open", "")

ScanInit ==
  /\ pods \in UNION {[1 .. n -> PodSet] : n \in 0 .. MaxPods}
  /\ next = 1 /\ failed = NoExit /\ succeeded = NoExit
  /\ scanned = 0
  /\ verdict = IF pods = <<>> THEN Verdict("Starting", "PodNotReady") ELSE Open

\* Bug: a later exit with as many attempts replaces the earlier one.
LateWorse(exit) == ~failed.seen \/ exit.attempts >= failed.attempts

Worse(exit) == ~failed.seen \/ exit.attempts > failed.attempts

ExitStep ==
  LET exit == getPodMainContainerExitStatus(pods[next])
  IN  /\ next <= Len(pods)
      /\ next' = next + 1
      /\ succeeded' = IF exit.seen /\ exit.code = 0 /\ ~succeeded.seen THEN exit ELSE succeeded
      /\ failed' = IF exit.seen /\ exit.code # 0 /\ Worse(exit) THEN exit ELSE failed
      /\ UNCHANGED <<pods, scanned, verdict>>

\* Bug: a succeeded pod is passed over.
StepVerdictOnly(pod) ==
  IF PodVerdict(pod) # NoVerdict THEN PodVerdict(pod)
  ELSE IF scanned + 1 = Len(pods) THEN NoVerdict ELSE Open

StepVerdict(pod) ==
  IF Decides(pod) THEN PodVerdict(pod)
  ELSE IF scanned + 1 = Len(pods) THEN NoVerdict ELSE Open

UnschedulableStep ==
  /\ verdict = Open
  /\ scanned' = scanned + 1
  /\ verdict' = StepVerdict(pods[scanned + 1])
  /\ UNCHANGED <<pods, next, failed, succeeded>>

ScanNext == ExitStep \/ UnschedulableStep

ScanSpec == ScanInit /\ [][ScanNext]_scanVars

(***************************************************************************)
(* Properties.                                                             *)
(***************************************************************************)
ExitResult == IF failed.seen THEN failed ELSE succeeded

\* The loop returns the failed exit with the most attempts, of the earliest
\* pod on a tie, and a clean exit only when no pod failed.
ExitLoopCorrect ==
  next > Len(pods) => ExitResult = GetMainContainerExitStatus(pods)

\* The loop returns the verdict of the first pod that decides.
VerdictLoopCorrect ==
  verdict # Open => verdict = HasUnschedulablePods(pods)
=============================================================================
