---------------------------- MODULE PartsProofs ----------------------------
(***************************************************************************)
(* Theorems about the parts that the controllers stand on, for every value *)
(* of their constants: the processes of the manager (OneActive), the loops *)
(* over the pods of an operation (they compute what module Pods defines) and *)
(* the list of its conditions (logging on it is logging on the summary).   *)
(***************************************************************************)
EXTENDS Manager, PodScan, ConditionLog, FiniteSetTheorems, WellFoundedInduction, TLAPS

(***************************************************************************)
(* The manager: any finite set of replicas, any environment and command    *)
(* line, and any number of failures.                                       *)
(***************************************************************************)
\* The initial states satisfy the invariant.
LEMMA InitLeader == Init => LeaderInv
<1> SUFFICES ASSUME Init PROVE LeaderInv
  OBVIOUS
<1>1. ManagerTypeOK
  BY DEF Init, ManagerTypeOK, Labels, Controllers
<1>2. \A r \in Replicas : pc[r] = "boot"
  BY DEF Init
<1> QED
  BY <1>1, <1>2 DEF LeaderInv

\* A failure is counted and ends the process.
LEMMA ExitType ==
  ASSUME ManagerTypeOK, NEW r \in Replicas, Exit(r)
  PROVE  failures' \in Nat /\ pc' = [pc EXCEPT ![r] = "exited"]
BY DEF Exit, Fail, Move, ManagerTypeOK

\* Every step keeps the types.
LEMMA NextType ==
  ASSUME ManagerTypeOK, [Next]_vars
  PROVE  ManagerTypeOK'
<1>1. CASE LeaseExpires
  BY <1>1 DEF LeaseExpires, ManagerTypeOK
<1>2. ASSUME NEW r \in Replicas, ParseFlags(r) PROVE ManagerTypeOK'
  BY <1>2 DEF ParseFlags, Move, ManagerTypeOK, Labels
<1>3. ASSUME NEW r \in Replicas, NewManager(r) PROVE ManagerTypeOK'
  BY <1>3, ExitType DEF NewManager, Move, ManagerTypeOK, Labels
<1>4. ASSUME NEW r \in Replicas, SetupWithManager(r) PROVE ManagerTypeOK'
  BY <1>4, ExitType DEF SetupWithManager, ManagerTypeOK, Labels, Controllers
<1>5. ASSUME NEW r \in Replicas, AddChecks(r) PROVE ManagerTypeOK'
  BY <1>5, ExitType DEF AddChecks, Move, ManagerTypeOK, Labels
<1>6. ASSUME NEW r \in Replicas, Start(r) PROVE ManagerTypeOK'
  BY <1>6 DEF Start, Move, ManagerTypeOK, Labels
<1>7. ASSUME NEW r \in Replicas, Acquire(r) PROVE ManagerTypeOK'
  BY <1>7 DEF Acquire, Move, ManagerTypeOK, Labels
<1>8. ASSUME NEW r \in Replicas, Dies(r) PROVE ManagerTypeOK'
  BY <1>8, ExitType DEF Dies, ManagerTypeOK, Labels
<1>9. ASSUME NEW r \in Replicas, KubeletRestarts(r) PROVE ManagerTypeOK'
  BY <1>9 DEF KubeletRestarts, Move, ManagerTypeOK, Labels, Controllers
<1>10. CASE UNCHANGED vars
  BY <1>10 DEF vars, ManagerTypeOK
<1> QED
  BY <1>1, <1>2, <1>3, <1>4, <1>5, <1>6, <1>7, <1>8, <1>9, <1>10 DEF Next, Step

\* Every step keeps the invariant: a replica that elects becomes active with the
\* lease and the lease does not run out while it is.
LEMMA NextLeader ==
  ASSUME LeaderInv, [Next]_vars
  PROVE  LeaderInv'
<1>0. ManagerTypeOK
  BY DEF LeaderInv
<1>1. ManagerTypeOK'
  BY <1>0, NextType
<1> DEFINE Known == \A r \in Replicas : pc[r] # "boot" => config[r] = parseConfig(env, flags)
           Held  == \A r \in Replicas : pc[r] = "active" /\ config[r].elect => lease = r
<1>2. Known /\ Held
  BY DEF LeaderInv
<1>3. CASE LeaseExpires
  <2>1. UNCHANGED <<env, flags, pc, config>> /\ pc[lease] # "active"
    BY <1>3 DEF LeaseExpires
  <2>2. Known' /\ Held'
    BY <1>2, <2>1
  <2> QED
    BY <1>1, <2>2 DEF LeaderInv
<1>4. ASSUME NEW r \in Replicas, ParseFlags(r) PROVE Known' /\ Held'
  BY <1>0, <1>2, <1>4 DEF ParseFlags, Move, ManagerTypeOK
<1>5. ASSUME NEW r \in Replicas, NEW label \in Labels \ {"active"}, pc[r] # "boot",
             Move(r, label), UNCHANGED <<env, flags, config, lease>>
      PROVE  Known' /\ Held'
  BY <1>0, <1>2, <1>5 DEF Move, ManagerTypeOK
<1>6. ASSUME NEW r \in Replicas, NewManager(r) \/ AddChecks(r) \/ Dies(r)
      PROVE  Known' /\ Held'
  <2>1. PICK label \in Labels \ {"active"} :
           /\ pc[r] # "boot"
           /\ Move(r, label) /\ UNCHANGED <<env, flags, config, lease>>
    BY <1>6 DEF NewManager, AddChecks, Dies, Exit, Labels
  <2> QED
    BY <1>5, <2>1
<1>7. ASSUME NEW r \in Replicas, SetupWithManager(r) PROVE Known' /\ Held'
  <2>1. CASE UNCHANGED <<env, flags, pc, config, lease>>
    BY <1>2, <2>1
  <2>2. CASE Exit(r)
    BY <1>5, <1>7, <2>2 DEF SetupWithManager, Exit, Labels
  <2> QED
    BY <1>7, <2>1, <2>2 DEF SetupWithManager
<1>8. ASSUME NEW r \in Replicas, Start(r) PROVE Known' /\ Held'
  BY <1>0, <1>2, <1>8 DEF Start, Move, ManagerTypeOK
<1>9. ASSUME NEW r \in Replicas, Acquire(r) PROVE Known' /\ Held'
  <2>1. lease \in {Unset, r} /\ lease' = r /\ pc' = [pc EXCEPT ![r] = "active"]
        /\ UNCHANGED <<env, flags, config>> /\ pc[r] # "boot"
    BY <1>9 DEF Acquire, Move
  <2>2. \A q \in Replicas : q # r => ~(pc[q] = "active" /\ config[q].elect)
    BY <1>2, <2>1, ManagerAssumption
  <2> QED
    BY <1>0, <1>2, <2>1, <2>2 DEF ManagerTypeOK
<1>10. ASSUME NEW r \in Replicas, KubeletRestarts(r) PROVE Known' /\ Held'
  BY <1>0, <1>2, <1>10 DEF KubeletRestarts, Move, ManagerTypeOK
<1>11. CASE UNCHANGED vars
  BY <1>1, <1>2, <1>11 DEF vars, LeaderInv
<1>12. Known' /\ Held' => LeaderInv'
  BY <1>1 DEF LeaderInv
<1> QED
  BY <1>3, <1>4, <1>6, <1>7, <1>8, <1>9, <1>10, <1>11, <1>12 DEF Next, Step

\* Two active replicas would both hold the lease.
LEMMA LeaderOne == LeaderInv => OneActive
<1> SUFFICES ASSUME LeaderInv, flags.leaderElect = TRUE PROVE Cardinality(Active) <= 1
  BY DEF OneActive
<1>1. parseConfig(env, flags).elect = TRUE
  BY ManagerAssumption DEF parseConfig, BoolVar
<1>2. \A r \in Active : r = lease
  BY <1>1 DEF LeaderInv, Active
<1>3. CASE Active = {}
  BY <1>3, FS_EmptySet
<1>4. CASE Active # {}
  <2>1. Active = {lease}
    BY <1>2, <1>4
  <2> QED
    BY <2>1, FS_Singleton
<1> QED
  BY <1>3, <1>4

\* A replica's configuration is what the environment and the flags say, and an
\* active replica of a manager that elects holds the lease, through crashes,
\* failed set-ups, lost leases and restarts.
THEOREM LeaderInvariance == Spec => []LeaderInv
<1>1. Init => LeaderInv
  BY InitLeader
<1>2. LeaderInv /\ [Next]_vars => LeaderInv'
  BY NextLeader
<1> QED
  BY <1>1, <1>2, PTL DEF Spec

\* With leader election enabled at most one replica runs the controllers, for any
\* number of replicas and failures (cmd/main.go's flag leader-elect).
THEOREM OneActiveHolds == Spec => []OneActive
<1>1. LeaderInv => OneActive
  BY LeaderOne
<1> QED
  BY <1>1, LeaderInvariance, PTL

(***************************************************************************)
(* What the operators of Pods choose.                                      *)
(***************************************************************************)
\* The naturals are well founded.
LEMMA NaturalsFounded ==
  \E R : IsWellFoundedOn(R, Nat) /\ \A x, y \in Nat : x < y => <<x, y>> \in R
<1> DEFINE R == OpToRel(<, Nat)
<1>1. IsWellFoundedOn(R, Nat)
  BY NatLessThanWellFounded
<1>2. \A x, y \in Nat : x < y => <<x, y>> \in R
  BY DEF OpToRel
<1> HIDE DEF R
<1> QED
  BY <1>1, <1>2

\* A set of positions has a least one, and Min is it.
LEMMA LeastPosition ==
  ASSUME NEW T \in SUBSET Nat, T # {}
  PROVE  Min(T) \in T /\ \A m \in T : Min(T) <= m
<1>1. PICK R : IsWellFoundedOn(R, Nat) /\ \A x, y \in Nat : x < y => <<x, y>> \in R
  BY NaturalsFounded
<1>2. IsWellFoundedOn(R, Nat) /\ T \subseteq Nat
  BY <1>1
<1>3. PICK n \in T : \A m \in T : ~(<<m, n>> \in R)
  BY <1>2, WFMin, Zenon
<1>4. \A m \in T : ~(m < n)
  BY <1>1, <1>3
<1>5. \A m \in T : n <= m
  BY <1>4
<1> QED
  BY <1>5 DEF Min

\* A position that is least is Min.
LEMMA MinIs ==
  ASSUME NEW T \in SUBSET Nat, NEW n \in T, \A m \in T : n <= m
  PROVE  Min(T) = n
<1>1. Min(T) \in T /\ \A m \in T : Min(T) <= m
  BY LeastPosition
<1>2. Min(T) \in Nat /\ n \in Nat /\ Min(T) <= n /\ n <= Min(T)
  BY <1>1
<1> HIDE DEF Min
<1> QED
  BY <1>2

\* An exit that was seen has a number of attempts.
LEMMA ExitAttempts ==
  ASSUME NEW pod \in PodSet, getPodMainContainerExitStatus(pod).seen
  PROVE  getPodMainContainerExitStatus(pod).attempts \in Nat
<1>0. ~NoExit.seen
  BY DEF NoExit
<1>1. HasMainContainerStatus(pod)
  BY <1>0 DEF getPodMainContainerExitStatus
<1>2. MainIndices(pod) \in SUBSET Nat /\ MainIndices(pod) # {}
  BY <1>1, PodSetAssumption DEF MainIndices, HasMainContainerStatus
<1>3. Min(MainIndices(pod)) \in DOMAIN pod.containers
  BY <1>2, LeastPosition DEF MainIndices
<1>4. getMainContainerStatus(pod).restarts \in Nat
  BY <1>3, PodSetAssumption DEF getMainContainerStatus
<1> QED
  BY <1>0, <1>1, <1>4 DEF getPodMainContainerExitStatus

(***************************************************************************)
(* The inductive invariant.                                                *)
(***************************************************************************)
\* The exit of the pod at a position, and the positions of the exits seen before
\* the loop's next one.
ExitAt(i) == getPodMainContainerExitStatus(pods[i])

FailedBefore(n) == {i \in DOMAIN pods : i < n /\ ExitAt(i).seen /\ ExitAt(i).code # 0}

CleanBefore(n) == {i \in DOMAIN pods : i < n /\ ExitAt(i).seen /\ ExitAt(i).code = 0}

\* More attempts, or as many and earlier.
WorseExit(i, j) ==
  \/ ExitAt(i).attempts > ExitAt(j).attempts
  \/ ExitAt(i).attempts = ExitAt(j).attempts /\ i <= j

ScanTypeOK ==
  /\ pods \in Seq(PodSet)
  /\ next \in 1 .. Len(pods) + 1
  /\ scanned \in 0 .. Len(pods)

\* What the two variables of the exit loop hold: the worst failed exit of the pods
\* it has passed, and the first clean one.
FailedSoFar ==
  IF failed.seen
  THEN \E i \in FailedBefore(next) :
          failed = ExitAt(i) /\ \A j \in FailedBefore(next) : WorseExit(i, j)
  ELSE failed = NoExit /\ FailedBefore(next) = {}

SucceededSoFar ==
  IF succeeded.seen
  THEN \E i \in CleanBefore(next) :
          succeeded = ExitAt(i) /\ \A j \in CleanBefore(next) : i <= j
  ELSE succeeded = NoExit /\ CleanBefore(next) = {}

\* No pod that the other loop has passed decides, and it has not come to its end,
\* while it runs.
UndecidedSoFar ==
  IF verdict = Open
  THEN /\ scanned < Len(pods)
       /\ \A i \in 1 .. scanned : ~Decides(pods[i])
  ELSE verdict = HasUnschedulablePods(pods)

ScanInv == ScanTypeOK /\ FailedSoFar /\ SucceededSoFar /\ UndecidedSoFar

\* One turn of the exit loop keeps the worst failed exit and the first clean one.
LEMMA ExitStepKeeps == ASSUME ScanInv, ExitStep PROVE ScanInv'
<1>0. PICK here : here = next
  OBVIOUS
<1> DEFINE exit == ExitAt(here)
<1>1. /\ here \in DOMAIN pods /\ here \in Nat /\ next' = here + 1
      /\ pods' = pods /\ scanned' = scanned /\ verdict' = verdict
      /\ failed' = IF exit.seen /\ exit.code # 0 /\ Worse(exit) THEN exit ELSE failed
      /\ succeeded' = IF exit.seen /\ exit.code = 0 /\ ~succeeded.seen THEN exit ELSE succeeded
  BY <1>0 DEF ExitStep, ScanInv, ScanTypeOK, ExitAt
<1>2. ScanTypeOK' /\ UndecidedSoFar'
  BY <1>0, <1>1 DEF ScanInv, ScanTypeOK, UndecidedSoFar
<1>3. \A i \in DOMAIN pods : i \in Nat /\ (i < here + 1 <=> i < here \/ i = here)
  BY <1>1 DEF ScanInv, ScanTypeOK
<1>4. FailedBefore(next)' = FailedBefore(next) \cup {i \in {here} : exit.seen /\ exit.code # 0}
  BY <1>0, <1>1, <1>3 DEF FailedBefore, ExitAt
<1>5. CleanBefore(next)' = CleanBefore(next) \cup {i \in {here} : exit.seen /\ exit.code = 0}
  BY <1>0, <1>1, <1>3 DEF CleanBefore, ExitAt
<1>6. \A i \in DOMAIN pods : ExitAt(i)' = ExitAt(i)
  BY <1>1 DEF ExitAt
<1>7. \A i \in DOMAIN pods : ExitAt(i).seen => ExitAt(i).attempts \in Nat
  BY ExitAttempts DEF ScanInv, ScanTypeOK, ExitAt
<1>8. \A i, j \in DOMAIN pods : WorseExit(i, j)' <=> WorseExit(i, j)
  BY <1>6 DEF WorseExit
<1>9. FailedSoFar'
  <2>0. FailedBefore(next) \subseteq DOMAIN pods /\ FailedBefore(next)' \subseteq DOMAIN pods
    BY <1>1, <1>4 DEF FailedBefore
  <2>1. CASE ~(exit.seen /\ exit.code # 0)
    <3>1. failed' = failed /\ FailedBefore(next)' = FailedBefore(next)
      BY <1>1, <1>4, <2>1
    <3> QED
      BY <1>6, <1>8, <2>0, <3>1 DEF ScanInv, FailedSoFar
  <2>2. CASE exit.seen /\ exit.code # 0 /\ ~failed.seen
    <3>1. failed' = ExitAt(here) /\ FailedBefore(next)' = {here}
      BY <1>1, <1>4, <2>2 DEF ScanInv, FailedSoFar, Worse
    <3>2. WorseExit(here, here)
      BY <1>1 DEF WorseExit
    <3>3. failed' = ExitAt(here)' /\ failed'.seen
      BY <1>1, <1>6, <2>2, <3>1
    <3> QED
      BY <1>1, <1>6, <1>8, <2>2, <3>1, <3>2, <3>3 DEF FailedSoFar
  <2>3. CASE exit.seen /\ exit.code # 0 /\ failed.seen
    <3>1. PICK i \in FailedBefore(next) :
            failed = ExitAt(i) /\ \A j \in FailedBefore(next) : WorseExit(i, j)
      BY <2>3 DEF ScanInv, FailedSoFar
    <3>2. i \in DOMAIN pods /\ i < here /\ ExitAt(i).seen /\ i \in Nat
      BY <1>0, <1>3, <3>1 DEF FailedBefore
    <3>3. ExitAt(i).attempts \in Nat /\ ExitAt(here).attempts \in Nat
      BY <1>1, <1>7, <2>3, <3>2
    <3>4. FailedBefore(next)' = FailedBefore(next) \cup {here}
      BY <1>4, <2>3
    <3>5. CASE ExitAt(here).attempts > ExitAt(i).attempts
      <4>1. failed' = ExitAt(here)
        BY <1>1, <2>3, <3>1, <3>5 DEF Worse
      <4>2. \A j \in FailedBefore(next) : WorseExit(here, j)
        <5> TAKE j \in FailedBefore(next)
        <5>1. WorseExit(i, j) /\ ExitAt(j).attempts \in Nat
          BY <1>7, <3>1 DEF FailedBefore
        <5> QED
          BY <3>3, <3>5, <5>1 DEF WorseExit
      <4>3. WorseExit(here, here)
        BY <1>1 DEF WorseExit
      <4>4. \A j \in FailedBefore(next)' : WorseExit(here, j)
        BY <3>4, <4>2, <4>3
      <4> HIDE DEF exit
      <4>5. \A j \in FailedBefore(next)' : WorseExit(here, j)'
        BY <1>8, <2>0, <4>4, <1>1
      <4> QED
        BY <1>1, <1>6, <2>3, <3>4, <4>1, <4>5 DEF FailedSoFar, exit
    <3>6. CASE ~(ExitAt(here).attempts > ExitAt(i).attempts)
      <4>1. failed' = failed
        BY <1>1, <2>3, <3>1, <3>6 DEF Worse
      <4>2. WorseExit(i, here)
        BY <1>1, <3>2, <3>3, <3>6 DEF WorseExit
      <4>3. \A j \in FailedBefore(next)' : WorseExit(i, j)
        BY <3>1, <3>4, <4>2
      <4>4. \A j \in FailedBefore(next)' : WorseExit(i, j)'
        BY <1>8, <2>0, <3>2, <4>3
      <4> QED
        BY <1>6, <2>3, <3>1, <3>2, <3>4, <4>1, <4>4 DEF FailedSoFar
    <3> QED
      BY <3>5, <3>6
  <2> QED
    BY <2>1, <2>2, <2>3
<1>10. SucceededSoFar'
  <2>1. CASE ~(exit.seen /\ exit.code = 0)
    <3>1. succeeded' = succeeded /\ CleanBefore(next)' = CleanBefore(next)
      BY <1>1, <1>5, <2>1
    <3> QED
      BY <1>6, <3>1 DEF ScanInv, SucceededSoFar, CleanBefore
  <2>2. CASE exit.seen /\ exit.code = 0 /\ ~succeeded.seen
    <3>1. succeeded' = ExitAt(here) /\ CleanBefore(next)' = {here}
      BY <1>1, <1>5, <2>2 DEF ScanInv, SucceededSoFar
    <3> QED
      BY <1>1, <1>6, <2>2, <3>1 DEF SucceededSoFar
  <2>3. CASE exit.seen /\ exit.code = 0 /\ succeeded.seen
    <3>1. PICK i \in CleanBefore(next) :
            succeeded = ExitAt(i) /\ \A j \in CleanBefore(next) : i <= j
      BY <2>3 DEF ScanInv, SucceededSoFar
    <3>2. i \in DOMAIN pods /\ i <= here
      BY <1>0, <1>1, <1>3, <3>1 DEF CleanBefore
    <3>3. succeeded' = succeeded /\ CleanBefore(next)' = CleanBefore(next) \cup {here}
      BY <1>1, <1>5, <2>3
    <3> QED
      BY <1>6, <2>3, <3>1, <3>2, <3>3 DEF SucceededSoFar
  <2> QED
    BY <2>1, <2>2, <2>3
<1> QED
  BY <1>2, <1>9, <1>10 DEF ScanInv

\* A verdict is never the mark of the running loop.
LEMMA VerdictNotOpen == \A pod : PodVerdict(pod) # Open /\ NoVerdict # Open
BY DEF PodVerdict, NoVerdict, Verdict, Open

\* One turn of the other loop returns what the definition says, or goes on.
LEMMA VerdictStepKeeps == ASSUME ScanInv, UnschedulableStep PROVE ScanInv'
<1> DEFINE n == scanned + 1
           deciding == {i \in DOMAIN pods : Decides(pods[i])}
<1>1. /\ pods' = pods /\ next' = next /\ failed' = failed /\ succeeded' = succeeded
      /\ scanned' = n /\ verdict' = StepVerdict(pods[n])
      /\ pods \in Seq(PodSet) /\ scanned \in Nat /\ scanned < Len(pods)
      /\ \A i \in 1 .. scanned : ~Decides(pods[i])
  BY DEF UnschedulableStep, ScanInv, ScanTypeOK, UndecidedSoFar
<1>2. ScanTypeOK' /\ n \in DOMAIN pods /\ pods # <<>>
  BY <1>1 DEF ScanInv, ScanTypeOK
<1>3. FailedSoFar' /\ SucceededSoFar'
  BY <1>1 DEF ScanInv, FailedSoFar, SucceededSoFar, FailedBefore, CleanBefore, WorseExit, ExitAt
<1>4. \A i \in DOMAIN pods : i \in Nat /\ (i < n => i \in 1 .. scanned)
  BY <1>1
<1>5. CASE Decides(pods[n])
  <2>1. n \in deciding /\ deciding \in SUBSET Nat /\ \A m \in deciding : n <= m
    BY <1>1, <1>2, <1>4, <1>5
  <2>2. Min(deciding) = n
    BY <2>1, MinIs
  <2>3. HasUnschedulablePods(pods) = PodVerdict(pods[n])
    BY <1>2, <2>1, <2>2 DEF HasUnschedulablePods
  <2>4. verdict' = PodVerdict(pods[n]) /\ verdict' # Open
    BY <1>1, <1>5, VerdictNotOpen DEF StepVerdict
  <2> QED
    BY <1>1, <1>2, <1>3, <2>3, <2>4 DEF ScanInv, UndecidedSoFar
<1>6. CASE ~Decides(pods[n])
  <2>1. \A i \in 1 .. n : ~Decides(pods[i])
    BY <1>1, <1>6
  <2>2. CASE n = Len(pods)
    <3>1. deciding = {}
      BY <1>1, <2>1, <2>2
    <3>2. HasUnschedulablePods(pods) = NoVerdict
      BY <1>2, <3>1 DEF HasUnschedulablePods
    <3>3. verdict' = NoVerdict /\ verdict' # Open
      BY <1>1, <1>6, <2>2, VerdictNotOpen DEF StepVerdict
    <3> QED
      BY <1>1, <1>2, <1>3, <3>2, <3>3 DEF ScanInv, UndecidedSoFar
  <2>3. CASE n # Len(pods)
    <3>1. verdict' = Open
      BY <1>1, <1>6, <2>3 DEF StepVerdict
    <3>2. n < Len(pods)
      BY <1>1, <2>3
    <3> QED
      BY <1>1, <1>2, <1>3, <2>1, <3>1, <3>2 DEF ScanInv, UndecidedSoFar
  <2> QED
    BY <2>2, <2>3
<1> QED
  BY <1>5, <1>6

\* At any moment both loops hold the answer for the pods they have passed.
THEOREM ScanInvariance == ScanSpec => []ScanInv
<1>1. ScanInit => ScanInv
  <2> SUFFICES ASSUME ScanInit PROVE ScanInv
    OBVIOUS
  <2>1. PICK n \in 0 .. MaxPods : pods \in [1 .. n -> PodSet]
    BY DEF ScanInit
  <2>2. pods \in Seq(PodSet) /\ Len(pods) = n /\ n \in Nat
    BY <2>1, MaxPodsAssumption
  <2>3. ScanTypeOK
    BY <2>2 DEF ScanInit, ScanTypeOK
  <2>4. FailedBefore(next) = {} /\ CleanBefore(next) = {}
    BY <2>2 DEF ScanInit, FailedBefore, CleanBefore
  <2>5. FailedSoFar /\ SucceededSoFar
    BY <2>4 DEF ScanInit, FailedSoFar, SucceededSoFar, NoExit
  <2>6. UndecidedSoFar
    <3>1. CASE pods = <<>>
      BY <3>1 DEF ScanInit, UndecidedSoFar, HasUnschedulablePods, Verdict, Open
    <3>2. CASE pods # <<>>
      <4>1. Len(pods) > 0
        BY <2>2, <3>2
      <4> QED
        BY <3>2, <4>1 DEF ScanInit, UndecidedSoFar
    <3> QED
      BY <3>1, <3>2
  <2> QED
    BY <2>3, <2>5, <2>6 DEF ScanInv
<1>2. ScanInv /\ [ScanNext]_scanVars => ScanInv'
  <2> SUFFICES ASSUME ScanInv, [ScanNext]_scanVars PROVE ScanInv'
    OBVIOUS
  <2>1. CASE UNCHANGED scanVars
    BY <2>1
       DEF scanVars, ScanInv, ScanTypeOK, FailedSoFar, SucceededSoFar, UndecidedSoFar,
           FailedBefore, CleanBefore, WorseExit, ExitAt
  <2> QED
    BY <2>1, ExitStepKeeps, VerdictStepKeeps DEF ScanNext
<1> QED
  BY <1>1, <1>2, PTL DEF ScanSpec

\* ExitLoopCorrect: GetMainContainerExitStatus returns the failed exit with the most
\* attempts, of the earliest pod on a tie, and a clean exit only when no pod failed.
THEOREM ExitLoopCorrectHolds == ScanSpec => []ExitLoopCorrect
<1>1. ASSUME ScanInv, next > Len(pods) PROVE ExitResult = GetMainContainerExitStatus(pods)
  <2> DEFINE exited == {i \in DOMAIN pods : ExitAt(i).seen}
             bad    == {i \in exited : ExitAt(i).code # 0}
  <2>0. GetMainContainerExitStatus(pods) =
          IF bad # {}
          THEN ExitAt(CHOOSE i \in bad : \A j \in bad : WorseExit(i, j))
          ELSE IF exited # {} THEN ExitAt(Min(exited)) ELSE NoExit
    BY DEF GetMainContainerExitStatus, ExitAt, WorseExit
  <2>1. pods \in Seq(PodSet) /\ \A i \in DOMAIN pods : i \in Nat /\ i < next
    BY <1>1 DEF ScanInv, ScanTypeOK
  <2>2. bad = FailedBefore(next)
    BY <2>1 DEF FailedBefore
  <2>3. \A i \in bad : i \in Nat /\ ExitAt(i).attempts \in Nat
    BY <2>1, ExitAttempts DEF ExitAt
  <2>4. CASE failed.seen
    <3>1. PICK i \in bad : failed = ExitAt(i) /\ \A j \in bad : WorseExit(i, j)
      BY <1>1, <2>2, <2>4 DEF ScanInv, FailedSoFar
    <3>2. \A k \in bad : (\A j \in bad : WorseExit(k, j)) => k = i
      <4> TAKE k \in bad
      <4> HAVE \A j \in bad : WorseExit(k, j)
      <4>1. WorseExit(k, i) /\ WorseExit(i, k)
        BY <3>1
      <4> QED
        BY <2>3, <4>1 DEF WorseExit
    <3> HIDE DEF bad
    <3>3. (CHOOSE k \in bad : \A j \in bad : WorseExit(k, j)) = i
      BY <3>1, <3>2
    <3> QED
      BY <2>0, <2>4, <3>1, <3>3 DEF ExitResult
  <2>5. CASE ~failed.seen
    <3>1. bad = {}
      BY <1>1, <2>2, <2>5 DEF ScanInv, FailedSoFar
    <3>2. exited = CleanBefore(next)
      BY <2>1, <3>1 DEF CleanBefore
    <3>3. exited \in SUBSET Nat
      BY <2>1
    <3> HIDE DEF bad, exited
    <3>4. CASE succeeded.seen
      <4>1. PICK i \in exited : succeeded = ExitAt(i) /\ \A j \in exited : i <= j
        BY <1>1, <3>2, <3>4 DEF ScanInv, SucceededSoFar
      <4>2. Min(exited) = i
        BY <3>3, <4>1, MinIs
      <4> QED
        BY <2>0, <2>5, <3>1, <4>1, <4>2 DEF ExitResult
    <3>5. CASE ~succeeded.seen
      BY <1>1, <2>0, <2>5, <3>1, <3>2, <3>5 DEF ScanInv, SucceededSoFar, ExitResult
    <3> QED
      BY <3>4, <3>5
  <2> QED
    BY <2>4, <2>5
<1>2. ScanInv => ExitLoopCorrect
  BY <1>1 DEF ExitLoopCorrect
<1> QED
  BY <1>2, ScanInvariance, PTL

\* VerdictLoopCorrect: HasUnschedulablePods returns the verdict of the first pod that
\* decides.
THEOREM VerdictLoopCorrectHolds == ScanSpec => []VerdictLoopCorrect
<1>1. ScanInv => VerdictLoopCorrect
  BY DEF ScanInv, UndecidedSoFar, VerdictLoopCorrect
<1> QED
  BY <1>1, ScanInvariance, PTL

(***************************************************************************)
(* The list of conditions: any types, reasons and times.                   *)
(***************************************************************************)
\* A condition, and the inductive invariant: the times of a condition are in order
\* and not ahead of the clock, and the list is as OnePerTypeInOrder says.
Logged == [type : Types, why : Whys, update : Nat, transition : Nat]

LogInv ==
  /\ clock \in Nat
  /\ conds \in Seq(Logged)
  /\ \A i \in DOMAIN conds :
       conds[i].transition <= conds[i].update /\ conds[i].update <= clock
  /\ OnePerTypeInOrder

\* A turn of the loop of removeCondition, and the lists it has made after each turn.
Turn(F, type, i) ==
  IF i = 0 THEN <<>>
  ELSE IF conds[i].type = type THEN F[i - 1]
  ELSE Append(F[i - 1], conds[i])

Turns(F, type, n) == F = [i \in 0 .. n |-> Turn(F, type, i)]

\* The lists that the loop makes are a recursive function: what it has made after n
\* turns can be extended by one turn,
LEMMA OneMoreTurn ==
  ASSUME NEW type, NEW n \in Nat, NEW F, Turns(F, type, n)
  PROVE  \E G : Turns(G, type, n + 1)
<1> DEFINE G == [i \in 0 .. n + 1 |-> IF i <= n THEN F[i] ELSE Turn(F, type, n + 1)]
<1>1. \A i \in 0 .. n : F[i] = Turn(F, type, i)
  BY DEF Turns
<1>2. ASSUME NEW i \in 0 .. n + 1 PROVE Turn(F, type, i) = Turn(G, type, i)
  BY <1>2 DEF Turn
<1>3. \A i \in 0 .. n + 1 : G[i] = Turn(F, type, i)
  BY <1>1
<1>4. G = [i \in 0 .. n + 1 |-> Turn(G, type, i)]
  BY <1>2, <1>3
<1> HIDE DEF G
<1> QED
  BY <1>4 DEF Turns

\* so the function exists for every number of turns.
LEMMA TurnsExist ==
  ASSUME NEW type, NEW n \in Nat
  PROVE  \E F : Turns(F, type, n)
<1> DEFINE T == {m \in Nat : ~\E F : Turns(F, type, m)}
<1> SUFFICES ASSUME T # {} PROVE FALSE
  OBVIOUS
<1>1. PICK m \in T : \A l \in T : m <= l
  BY LeastPosition, T \in SUBSET Nat
<1>2. Turns([i \in 0 .. 0 |-> <<>>], type, 0)
  BY DEF Turns, Turn
<1>3. m # 0
  BY <1>1, <1>2
<1>4. m - 1 \in Nat /\ m - 1 \notin T
  BY <1>1, <1>3
<1>5. PICK F : Turns(F, type, m - 1)
  BY <1>4
<1>6. \E G : Turns(G, type, m - 1 + 1)
  BY <1>4, <1>5, OneMoreTurn
<1> QED
  BY <1>1, <1>6

\* The first n entries of a list are the conditions of the other types among the
\* first i of conds, in their order: at[k] is where the k-th of them was.
Others(list, n, at, type, i) ==
  /\ at \in [1 .. n -> 1 .. i]
  /\ \A k \in 1 .. n : list[k] = conds[at[k]] /\ conds[at[k]].type # type
  /\ \A k, l \in 1 .. n : k < l => at[k] < at[l]
  /\ \A j \in 1 .. i : conds[j].type # type => \E k \in 1 .. n : at[k] = j

\* What the list holds after i turns.
KeptAfter(kept, type, i) ==
  kept \in Seq(Logged) /\ \E at : Others(kept, Len(kept), at, type, i)

\* A turn keeps the condition it looks at, or leaves it out for its type.
LEMMA TurnKeeps ==
  ASSUME LogInv, NEW type, NEW i \in 1 .. Len(conds), NEW F, F[i] = Turn(F, type, i),
         KeptAfter(F[i - 1], type, i - 1)
  PROVE  KeptAfter(F[i], type, i)
<1> DEFINE old == F[i - 1]
<1>0. /\ conds \in Seq(Logged) /\ Len(conds) \in Nat /\ i \in Nat /\ i - 1 \in Nat
      /\ conds[i] \in Logged
  BY DEF LogInv
<1>1. PICK at : Others(old, Len(old), at, type, i - 1)
  BY DEF KeptAfter
<1>2. old \in Seq(Logged) /\ Len(old) \in Nat
  BY DEF KeptAfter
<1>3. CASE conds[i].type = type
  <2>1. F[i] = old
    BY <1>0, <1>3 DEF Turn
  <2>2. at \in [1 .. Len(old) -> 1 .. i]
    BY <1>0, <1>1 DEF Others
  <2>3. \A j \in 1 .. i : conds[j].type # type => \E k \in 1 .. Len(old) : at[k] = j
    BY <1>0, <1>1, <1>3 DEF Others
  <2> HIDE DEF old
  <2>4. Others(old, Len(old), at, type, i)
    BY <1>1, <2>2, <2>3 DEF Others
  <2> QED
    BY <1>2, <2>1, <2>4 DEF KeptAfter
<1>4. CASE conds[i].type # type
  <2> DEFINE new == Append(old, conds[i])
             to == [k \in 1 .. Len(old) + 1 |-> IF k = Len(old) + 1 THEN i ELSE at[k]]
  <2>1. F[i] = new
    BY <1>0, <1>4 DEF Turn
  <2> HIDE DEF old
  <2>2. new \in Seq(Logged) /\ Len(new) = Len(old) + 1
    BY <1>0, <1>2
  <2>3. \A k \in 1 .. Len(old) : new[k] = old[k]
    BY <1>0, <1>2
  <2>4. new[Len(old) + 1] = conds[i]
    BY <1>0, <1>2
  <2> HIDE DEF new
  <2>5. \A k \in 1 .. Len(old) : at[k] \in 1 .. i - 1
    BY <1>1 DEF Others
  <2>6. to \in [1 .. Len(new) -> 1 .. i]
    BY <1>0, <1>2, <2>2, <2>5
  <2>7. \A k \in 1 .. Len(new) : new[k] = conds[to[k]] /\ conds[to[k]].type # type
    <3> SUFFICES ASSUME NEW k \in 1 .. Len(new)
                 PROVE  new[k] = conds[to[k]] /\ conds[to[k]].type # type
      OBVIOUS
    <3>1. CASE k = Len(old) + 1
      BY <1>2, <1>4, <2>2, <2>4, <3>1
    <3>2. CASE k # Len(old) + 1
      <4>1. k \in 1 .. Len(old) /\ to[k] = at[k]
        BY <1>2, <2>2, <3>2
      <4> QED
        BY <1>1, <2>3, <4>1 DEF Others
    <3> QED
      BY <3>1, <3>2
  <2>8. \A k, l \in 1 .. Len(new) : k < l => to[k] < to[l]
    <3> SUFFICES ASSUME NEW k \in 1 .. Len(new), NEW l \in 1 .. Len(new), k < l
                 PROVE  to[k] < to[l]
      OBVIOUS
    <3>1. k \in 1 .. Len(old) /\ to[k] = at[k] /\ at[k] \in 1 .. i - 1
      BY <1>2, <2>2, <2>5
    <3>2. CASE l = Len(old) + 1
      BY <1>0, <1>2, <2>2, <3>1, <3>2
    <3>3. CASE l # Len(old) + 1
      <4>1. l \in 1 .. Len(old) /\ to[l] = at[l]
        BY <1>2, <2>2, <3>3
      <4> QED
        BY <1>1, <3>1, <4>1 DEF Others
    <3> QED
      BY <3>2, <3>3
  <2>9. \A j \in 1 .. i : conds[j].type # type => \E k \in 1 .. Len(new) : to[k] = j
    <3> SUFFICES ASSUME NEW j \in 1 .. i, conds[j].type # type
                 PROVE  \E k \in 1 .. Len(new) : to[k] = j
      OBVIOUS
    <3>1. CASE j = i
      BY <1>2, <2>2, <3>1
    <3>2. CASE j # i
      <4>1. PICK k \in 1 .. Len(old) : at[k] = j
        BY <1>0, <1>1, <3>2 DEF Others
      <4> QED
        BY <1>2, <2>2, <4>1
    <3> QED
      BY <3>1, <3>2
  <2> HIDE DEF to
  <2>10. Others(new, Len(new), to, type, i)
    BY <2>6, <2>7, <2>8, <2>9 DEF Others
  <2> QED
    BY <2>1, <2>2, <2>10 DEF KeptAfter
<1> QED
  BY <1>3, <1>4

\* removeCondition keeps the conditions of the other types, all of them and in their
\* order: the first turn after which it would not is no turn.
LEMMA Removes ==
  ASSUME LogInv, NEW type
  PROVE  KeptAfter(removeCondition(type), type, Len(conds))
<1> DEFINE n == Len(conds)
           F == CHOOSE F : F = [i \in 0 .. Len(conds) |->
                                  IF i = 0 THEN <<>>
                                  ELSE IF conds[i].type = type THEN F[i - 1]
                                  ELSE Append(F[i - 1], conds[i])]
           T == {i \in 0 .. n : ~KeptAfter(F[i], type, i)}
<1>1. n \in Nat
  BY DEF LogInv
<1>2. \E G : Turns(G, type, n)
  BY <1>1, TurnsExist
<1>3. removeCondition(type) = F[n]
  BY DEF removeCondition
<1>4. Turns(F, type, n)
  BY <1>2 DEF Turns, Turn
<1> HIDE DEF F
<1>5. \A i \in 0 .. n : F[i] = Turn(F, type, i)
  BY <1>4 DEF Turns
<1>6. T = {}
  <2> SUFFICES ASSUME T # {} PROVE FALSE
    OBVIOUS
  <2>1. PICK i \in T : \A l \in T : i <= l
    BY LeastPosition, T \in SUBSET Nat
  <2>2. KeptAfter(F[0], type, 0)
    <3>1. F[0] = <<>>
      BY <1>1, <1>5 DEF Turn
    <3>2. <<>> \in Seq(Logged) /\ Len(<<>>) = 0
      OBVIOUS
    <3>3. [k \in 1 .. Len(<<>>) |-> k] \in [1 .. Len(<<>>) -> 1 .. 0]
      BY <3>2
    <3>4. \A k \in 1 .. 0 : FALSE
      OBVIOUS
    <3>5. Others(<<>>, Len(<<>>), [k \in 1 .. Len(<<>>) |-> k], type, 0)
      BY <3>2, <3>3, <3>4 DEF Others
    <3> QED
      BY <3>1, <3>2, <3>5 DEF KeptAfter
  <2>3. i \in 1 .. n /\ i - 1 \in 0 .. n
    BY <1>1, <2>1, <2>2
  <2>4. KeptAfter(F[i - 1], type, i - 1)
    BY <1>1, <2>1, <2>3
  <2>5. KeptAfter(F[i], type, i)
    BY <1>5, <2>3, <2>4, TurnKeeps
  <2> QED
    BY <2>1, <2>5
<1> QED
  BY <1>1, <1>3, <1>6

\* Logging a condition leaves those of the other types in front of it, in their order.
LEMMA Appends ==
  ASSUME LogInv, NEW type \in Types, NEW why \in Whys, conds' = appendCondition(type, why)
  PROVE  /\ conds' \in Seq(Logged) /\ Len(conds') \in Nat \ {0}
         /\ conds'[Len(conds')] = updatedCondition(type, why)
         /\ conds'[Len(conds')].type = type /\ conds'[Len(conds')].why = why
         /\ conds'[Len(conds')].update = clock
         /\ \E at : Others(conds', Len(conds') - 1, at, type, Len(conds))
<1> DEFINE kept == removeCondition(type)
           new  == updatedCondition(type, why)
<1>1. KeptAfter(kept, type, Len(conds))
  BY Removes
<1> HIDE DEF kept
<1>2. conds \in Seq(Logged) /\ Len(conds) \in Nat /\ clock \in Nat
      /\ DOMAIN conds = 1 .. Len(conds)
  BY DEF LogInv
<1>3. new \in Logged /\ new.type = type /\ new.why = why /\ new.update = clock
  <2>1. conds # <<>> => getLastEntityCondition \in Logged
    BY <1>2 DEF getLastEntityCondition
  <2> QED
    BY <1>2, <2>1 DEF updatedCondition, newCondition, Logged
<1>4. kept \in Seq(Logged) /\ Len(kept) \in Nat
  BY <1>1 DEF KeptAfter
<1>5. conds' = Append(kept, new)
  BY DEF appendCondition, kept
<1> HIDE DEF new
<1>6. /\ conds' \in Seq(Logged) /\ Len(conds') = Len(kept) + 1
      /\ conds'[Len(kept) + 1] = new
      /\ \A k \in 1 .. Len(kept) : conds'[k] = kept[k]
  BY <1>3, <1>4, <1>5
<1>7. Len(conds') - 1 = Len(kept)
  BY <1>4, <1>6
<1>8. conds'[Len(conds')] = updatedCondition(type, why)
  BY <1>6 DEF new
<1>9. PICK at : Others(kept, Len(kept), at, type, Len(conds))
  BY <1>1 DEF KeptAfter
<1>10. Others(conds', Len(conds') - 1, at, type, Len(conds))
  BY <1>6, <1>7, <1>9 DEF Others
<1> QED
  BY <1>3, <1>4, <1>6, <1>8, <1>10

\* The empty list satisfies the invariant.
LEMMA InitLog == LogInit => LogInv
<1> SUFFICES ASSUME LogInit PROVE LogInv
  OBVIOUS
<1>1. conds = <<>> /\ clock = 0 /\ DOMAIN conds = {} /\ conds \in Seq(Logged)
  BY DEF LogInit
<1> QED
  BY <1>1 DEF LogInv, OnePerTypeInOrder

\* Every step keeps it: a condition that is logged again leaves its old place, and if
\* it keeps its transition time it was the last one.
LEMMA NextLog == ASSUME LogInv, [LogNext]_logVars PROVE LogInv'
<1>1. CASE conds' = conds /\ (clock' = clock \/ clock' = clock + 1)
  <2>1. \A i \in DOMAIN conds : conds[i].update \in Nat /\ conds[i].transition \in Nat
    <3> SUFFICES ASSUME NEW i \in DOMAIN conds PROVE conds[i] \in Logged
      BY DEF Logged
    <3> QED
      BY DEF LogInv
  <2> QED
    BY <1>1, <2>1 DEF LogInv, OnePerTypeInOrder
<1>2. ASSUME NEW type \in Types, NEW why \in Whys, conds' = appendCondition(type, why),
             clock' = clock
      PROVE  LogInv'
  <2> DEFINE n == Len(conds') - 1
  <2>0. DOMAIN conds = 1 .. Len(conds)
    BY DEF LogInv
  <2>1. /\ conds' \in Seq(Logged) /\ Len(conds') \in Nat \ {0}
        /\ conds'[Len(conds')].type = type
        /\ conds'[Len(conds')].update = clock
    BY <1>2, Appends
  <2>2. PICK at : Others(conds', n, at, type, Len(conds))
    BY <1>2, Appends
  <2>3. DOMAIN conds' = 1 .. Len(conds') /\ n \in Nat /\ Len(conds') = n + 1
    BY <2>1
  <2> HIDE DEF n
  <2>4. \A k \in 1 .. n :
          /\ at[k] \in DOMAIN conds /\ conds'[k] = conds[at[k]] /\ conds'[k].type # type
          /\ conds'[k].transition <= conds'[k].update /\ conds'[k].update <= clock
    BY <2>0, <2>2 DEF LogInv, Others
  <2>5. clock \in Nat /\ \A i \in DOMAIN conds : conds[i].update \in Nat
    <3>1. ASSUME NEW i \in DOMAIN conds PROVE conds[i] \in Logged
      BY DEF LogInv
    <3> QED
      BY <3>1 DEF LogInv, Logged
  <2> DEFINE new == conds'[Len(conds')]
  <2>6. /\ new.transition <= new.update
        /\ \A k \in 1 .. n : conds'[k].update <= new.transition
    <3>1. new = updatedCondition(type, why)
      BY <1>2, Appends
    <3>2. CASE conds # <<>> /\ getLastEntityCondition.type = type /\ ~SameAsLast(type, why)
      <4>1. new.transition = conds[Len(conds)].transition
        BY <3>1, <3>2 DEF updatedCondition, newCondition, getLastEntityCondition
      <4>2. Len(conds) \in DOMAIN conds /\ conds[Len(conds)].type = type /\ Len(conds) \in Nat
        BY <3>2 DEF LogInv, getLastEntityCondition
      <4>3. new.transition <= clock
        <5>1. conds[Len(conds)] \in Logged
          BY <4>2 DEF LogInv
        <5> QED
          BY <2>5, <4>1, <4>2, <5>1 DEF LogInv, Logged
      <4>4. ASSUME NEW k \in 1 .. n PROVE conds'[k].update <= new.transition
        <5>1. at[k] \in DOMAIN conds /\ at[k] < Len(conds)
          BY <2>0, <2>4, <4>2
        <5>2. conds[at[k]].update <= conds[Len(conds)].transition
          BY <4>2, <5>1 DEF LogInv, OnePerTypeInOrder
        <5> QED
          BY <2>4, <4>1, <5>2
      <4> QED
        BY <2>1, <4>3, <4>4
    <3>3. CASE ~(conds # <<>> /\ getLastEntityCondition.type = type /\ ~SameAsLast(type, why))
      <4>1. new.transition = clock
        BY <3>1, <3>3 DEF updatedCondition, newCondition
      <4> QED
        BY <2>1, <2>4, <2>5, <4>1
    <3> QED
      BY <3>2, <3>3
  <2> HIDE DEF new
  <2>8. \A i \in DOMAIN conds' :
          conds'[i].transition <= conds'[i].update /\ conds'[i].update <= clock'
    <3> SUFFICES ASSUME NEW i \in DOMAIN conds'
                 PROVE  conds'[i].transition <= conds'[i].update /\ conds'[i].update <= clock'
      OBVIOUS
    <3>1. CASE i = n + 1
      BY <1>2, <2>1, <2>3, <2>5, <2>6, <3>1 DEF new
    <3>2. CASE i # n + 1
      BY <1>2, <2>3, <2>4, <3>2
    <3> QED
      BY <3>1, <3>2
  <2>7. OnePerTypeInOrder'
    <3> SUFFICES ASSUME NEW i \in DOMAIN conds', NEW j \in DOMAIN conds', i < j
                 PROVE  /\ conds'[i].type # conds'[j].type
                        /\ conds'[i].update <= conds'[j].transition
                        /\ conds'[j].transition <= conds'[j].update
      BY DEF OnePerTypeInOrder
    <3>1. i \in 1 .. n
      BY <2>3
    <3>2. CASE j = n + 1
      BY <2>1, <2>3, <2>4, <2>6, <3>1, <3>2 DEF new
    <3>3. CASE j # n + 1
      <4>1. j \in 1 .. n
        BY <2>3, <3>3
      <4>2. at[i] \in DOMAIN conds /\ at[j] \in DOMAIN conds /\ at[i] < at[j]
        BY <2>2, <2>4, <3>1, <4>1 DEF Others
      <4>3. /\ conds[at[i]].type # conds[at[j]].type
            /\ conds[at[i]].update <= conds[at[j]].transition
            /\ conds[at[j]].transition <= conds[at[j]].update
        BY <4>2 DEF LogInv, OnePerTypeInOrder
      <4> QED
        BY <2>4, <3>1, <4>1, <4>3
    <3> QED
      BY <3>2, <3>3
  <2> QED
    BY <1>2, <2>1, <2>5, <2>7, <2>8 DEF LogInv
<1> QED
  BY <1>1, <1>2 DEF LogNext, Log, Tick, logVars, logListCondition

\* Whatever is logged and when, each condition lasts from its transition to its last
\* update and the next on the list does not begin before that (api/v1/condition.go).
THEOREM LogInvariance == LogSpec => []LogInv
BY InitLog, NextLog, PTL DEF LogSpec

\* OnePerTypeInOrder: removeCondition keeps one condition per type, in the order in
\* which the operation was in them, for any number of types, reasons and log calls.
THEOREM OnePerTypeInOrderHolds == LogSpec => []OnePerTypeInOrder
<1>1. LogInv => OnePerTypeInOrder
  BY DEF LogInv
<1> QED
  BY <1>1, LogInvariance, PTL

\* Logging on the list is logging on what the controllers see of it.
LEMMA LogStep ==
  ASSUME LogInv, NEW type \in Types, NEW why \in Whys, logListCondition(type, why)
  PROVE  Summary' = logCondition(Summary, type, why)
<1> DEFINE has  == {conds[i].type : i \in DOMAIN conds}
           last == NewOperationCondition(type, why)
<1>0. conds \in Seq(Logged) /\ DOMAIN conds = 1 .. Len(conds) /\ Len(conds) \in Nat
  BY DEF LogInv
<1>1. logCondition(Summary, type, why) =
        [has |-> has \cup {type}, last |-> last, start |-> FALSE, completion |-> FALSE]
  <2>1. PICK b : Summary = [has |-> has, last |-> b, start |-> FALSE, completion |-> FALSE]
    BY DEF Summary
  <2> HIDE DEF last, has
  <2>2. /\ Summary \in [has : {has}, last : {b}, start : {FALSE}, completion : {FALSE}]
        /\ Summary.has = has
    BY <2>1
  <2>3. [Summary EXCEPT !.has = Summary.has \cup {type}, !.last = last]
          \in [has : {has \cup {type}}, last : {last}, start : {FALSE}, completion : {FALSE}]
    BY <2>2
  <2>4. logCondition(Summary, type, why)
          \in [has : {has \cup {type}}, last : {last}, start : {FALSE}, completion : {FALSE}]
    BY <2>3 DEF logCondition, last
  <2> QED
    BY <2>4
<1>2. CASE conds' = conds /\ SameAsLast(type, why)
  <2>1. /\ conds # <<>> /\ Len(conds) \in DOMAIN conds
        /\ conds[Len(conds)].type = type /\ conds[Len(conds)].why = why
    BY <1>0, <1>2 DEF SameAsLast, getLastEntityCondition
  <2>2. has \cup {type} = has
    BY <2>1
  <2> QED
    BY <1>1, <1>2, <2>1, <2>2 DEF Summary, getLastEntityCondition
<1>3. CASE conds' = appendCondition(type, why)
  <2> DEFINE n == Len(conds') - 1
  <2>0. DOMAIN conds = 1 .. Len(conds)
    BY DEF LogInv
  <2>1. /\ conds' \in Seq(Logged) /\ Len(conds') \in Nat \ {0}
        /\ conds'[Len(conds')].type = type /\ conds'[Len(conds')].why = why
    BY <1>3, Appends
  <2>2. PICK at : Others(conds', n, at, type, Len(conds))
    BY <1>3, Appends
  <2>3. DOMAIN conds' = 1 .. Len(conds') /\ n \in Nat /\ Len(conds') = n + 1 /\ conds' # <<>>
    BY <2>1
  <2> HIDE DEF n
  <2>4. {conds'[i].type : i \in DOMAIN conds'} = has \cup {type}
    <3>1. ASSUME NEW i \in DOMAIN conds' PROVE conds'[i].type \in has \cup {type}
      <4>1. CASE i = n + 1
        BY <2>1, <2>3, <4>1
      <4>2. CASE i # n + 1
        <5>1. i \in 1 .. n
          BY <2>3, <4>2
        <5> QED
          BY <2>0, <2>2, <5>1 DEF Others
      <4> QED
        BY <4>1, <4>2
    <3>2. ASSUME NEW j \in DOMAIN conds PROVE \E i \in DOMAIN conds' : conds'[i].type = conds[j].type
      <4>1. CASE conds[j].type = type
        BY <2>1, <2>3, <4>1
      <4>2. CASE conds[j].type # type
        <5>1. PICK k \in 1 .. n : at[k] = j
          BY <2>0, <2>2, <4>2 DEF Others
        <5> QED
          BY <2>2, <2>3, <5>1 DEF Others
      <4> QED
        BY <4>1, <4>2
    <3>3. type \in {conds'[i].type : i \in DOMAIN conds'}
      BY <2>1, <2>3
    <3> QED
      BY <3>1, <3>2, <3>3
  <2> QED
    BY <1>1, <2>1, <2>3, <2>4 DEF Summary, getLastEntityCondition
<1> QED
  BY <1>2, <1>3 DEF logListCondition

\* LogsOnSummary: the list implements the summary that the controllers' modules are
\* built on (module OperationStatus), for every condition that may be logged.
THEOREM LogsOnSummaryHolds == LogSpec => LogsOnSummary
<1>1. LogInv /\ [LogNext]_logVars =>
        [\A type \in Types, why \in Whys :
           logListCondition(type, why) => Summary' = logCondition(Summary, type, why)]_logVars
  BY LogStep
<1> QED
  BY <1>1, LogInvariance, PTL DEF LogSpec, LogsOnSummary

\* TransitionKept: a new reason or message of the last condition keeps its transition
\* time, although the condition is taken off the list and appended again.
THEOREM TransitionKeptHolds == LogSpec => TransitionKept
<1> DEFINE Kept ==
      conds # <<>> /\ conds' # <<>> /\ conds'[Len(conds')].type = getLastEntityCondition.type
        /\ conds'[Len(conds')].why # getLastEntityCondition.why
      => conds'[Len(conds')].transition = getLastEntityCondition.transition
<1>1. ASSUME LogInv, [LogNext]_logVars PROVE [Kept]_conds
  <2>1. ASSUME NEW type \in Types, NEW why \in Whys, conds' = appendCondition(type, why)
        PROVE  Kept
    <3> SUFFICES ASSUME conds # <<>>, conds'[Len(conds')].type = getLastEntityCondition.type,
                        conds'[Len(conds')].why # getLastEntityCondition.why
                 PROVE  conds'[Len(conds')].transition = getLastEntityCondition.transition
      OBVIOUS
    <3>1. /\ conds'[Len(conds')] = updatedCondition(type, why)
          /\ conds'[Len(conds')].type = type /\ conds'[Len(conds')].why = why
      BY <1>1, <2>1, Appends
    <3>2. ~SameAsLast(type, why) /\ getLastEntityCondition.type = type
      BY <3>1 DEF SameAsLast
    <3> QED
      BY <3>1, <3>2 DEF updatedCondition, newCondition
  <2>2. CASE conds' = conds
    BY <2>2
  <2> QED
    BY <1>1, <2>1, <2>2 DEF LogNext, Log, Tick, logVars, logListCondition
<1> QED
  BY <1>1, LogInvariance, PTL DEF LogSpec, TransitionKept
=============================================================================
