------------------------------- MODULE Manager -------------------------------
(***************************************************************************)
(* The start of the operator (cmd/main.go) in several replicas: what it    *)
(* reads from the environment (helpers/config) and from its flags, the     *)
(* four controllers it registers, and the leader election that the manager *)
(* of controller-runtime runs on a lease.  All replicas have the same      *)
(* environment and the same flags.                                         *)
(***************************************************************************)
EXTENDS FiniteSets, Naturals, Sequences

CONSTANTS
  Replicas,
  Unset,
  Environments,  \* the environments to look at
  Flags,         \* the command lines to look at
  MaxFailures    \* bound: failed set-ups, lost leases and crashes

Controllers == <<"Job", "Service", "KfJob", "Cluster">>

ASSUME ManagerAssumption ==
  /\ IsFiniteSet(Replicas) /\ MaxFailures \in Nat
  /\ Unset \notin Replicas \cup BOOLEAN
  /\ \A e \in Environments :
       /\ {e.LeaderElection, e.SingleNamespace} \subseteq {"true", "false", "garbage", Unset}
       /\ e.Namespace \in STRING \cup {Unset}
  /\ \A f \in Flags : f.leaderElect \in BOOLEAN \cup {Unset} /\ f.namespace \in STRING \cup {Unset}

VARIABLES
  env, flags,
  pc,          \* where each replica is
  config,      \* what it has read
  registered,  \* how many Controllers it has set up, in order
  lease,       \* who holds the lease, Unset for nobody
  failures

vars == <<env, flags, pc, config, registered, lease, failures>>

NoConfig == [elect |-> FALSE, namespace |-> ""]

Init ==
  /\ env \in Environments /\ flags \in Flags
  /\ pc = [r \in Replicas |-> "boot"]
  /\ config = [r \in Replicas |-> NoConfig]
  /\ registered = [r \in Replicas |-> 0]
  /\ lease = Unset /\ failures = 0

(***************************************************************************)
(* The environment.  A value that does not parse counts as not set.        *)
(***************************************************************************)
GetStrEnv(value, default) == IF value = Unset THEN default ELSE value

GetBoolEnv(value, default) ==
  CASE value = "true" -> TRUE [] value = "false" -> FALSE [] OTHER -> default

namespaceFromEnv(e) ==
  IF GetBoolEnv(e.SingleNamespace, FALSE)
  THEN IF GetStrEnv(e.Namespace, "") # "" THEN GetStrEnv(e.Namespace, "") ELSE "polyaxon"
  ELSE ""

\* A flag that is not passed sets its default.
BoolVar(flag, default) == IF flag = Unset THEN default ELSE flag

StringVar(flag, default) == IF flag = Unset THEN default ELSE flag

\* The flag of the namespace defaults to what was read from the environment,
\* that of the leader election to FALSE.
parseConfig(e, f) ==
  [elect     |-> BoolVar(f.leaderElect, FALSE),
   namespace |-> StringVar(f.namespace, namespaceFromEnv(e))]

(***************************************************************************)
(* The steps of a replica.                                                 *)
(***************************************************************************)
Move(r, label) == pc' = [pc EXCEPT ![r] = label]

Fail == failures < MaxFailures /\ failures' = failures + 1

Exit(r) == Fail /\ Move(r, "exited")

ParseFlags(r) ==
  /\ pc[r] = "boot"
  /\ config' = [config EXCEPT ![r] = parseConfig(env, flags)]
  /\ Move(r, "newManager")
  /\ UNCHANGED <<env, flags, registered, lease, failures>>

NewManager(r) ==
  /\ pc[r] = "newManager"
  /\ \/ Move(r, "setup") /\ UNCHANGED failures
     \/ Exit(r)
  /\ UNCHANGED <<env, flags, config, registered, lease>>

\* The controllers in their order; one that fails ends the process.
SetupWithManager(r) ==
  /\ pc[r] = "setup" /\ registered[r] < Len(Controllers)
  /\ \/ registered' = [registered EXCEPT ![r] = @ + 1] /\ UNCHANGED <<pc, failures>>
     \/ Exit(r) /\ UNCHANGED registered
  /\ UNCHANGED <<env, flags, config, lease>>

AddChecks(r) ==
  /\ pc[r] = "setup" /\ registered[r] = Len(Controllers)
  /\ \/ Move(r, "start") /\ UNCHANGED failures
     \/ Exit(r)
  /\ UNCHANGED <<env, flags, config, registered, lease>>

\* Bug: the controllers run before the lease is held.
StartAtOnce(r) ==
  /\ pc[r] = "start"
  /\ Move(r, "active")
  /\ UNCHANGED <<env, flags, config, registered, lease, failures>>

\* Bug: a replica that finds the lease taken gives up.
StartOnce(r) ==
  /\ pc[r] = "start"
  /\ Move(r, IF ~config[r].elect THEN "active" ELSE IF lease = Unset THEN "standby" ELSE "quit")
  /\ UNCHANGED <<env, flags, config, registered, lease, failures>>

Start(r) ==
  /\ pc[r] = "start"
  /\ Move(r, IF config[r].elect THEN "standby" ELSE "active")
  /\ UNCHANGED <<env, flags, config, registered, lease, failures>>

(***************************************************************************)
(* controller-runtime and the cluster.  A leader that cannot renew its     *)
(* lease stops before the lease runs out.                                  *)
(***************************************************************************)
Acquire(r) ==
  /\ pc[r] = "standby" /\ lease \in {Unset, r}
  /\ lease' = r /\ Move(r, "active")
  /\ UNCHANGED <<env, flags, config, registered, failures>>

\* The process dies, or its manager returns because the lease is lost.
Dies(r) ==
  /\ pc[r] \in {"standby", "active"}
  /\ Exit(r)
  /\ UNCHANGED <<env, flags, config, registered, lease>>

LeaseExpires ==
  /\ lease # Unset /\ pc[lease] # "active"
  /\ lease' = Unset
  /\ UNCHANGED <<env, flags, pc, config, registered, failures>>

KubeletRestarts(r) ==
  /\ pc[r] = "exited"
  /\ Move(r, "boot")
  /\ config' = [config EXCEPT ![r] = NoConfig]
  /\ registered' = [registered EXCEPT ![r] = 0]
  /\ UNCHANGED <<env, flags, lease, failures>>

Step(r) ==
  \/ ParseFlags(r) \/ NewManager(r) \/ SetupWithManager(r) \/ AddChecks(r) \/ Start(r)
  \/ Acquire(r) \/ KubeletRestarts(r)

Next == LeaseExpires \/ \E r \in Replicas : Step(r) \/ Dies(r)

\* Replicas run and are restarted, an abandoned lease runs out; nothing is
\* assumed of failures.
Spec ==
  /\ Init /\ [][Next]_vars
  /\ WF_vars(LeaseExpires) /\ \A r \in Replicas : WF_vars(Step(r))

(***************************************************************************)
(* Properties.                                                             *)
(***************************************************************************)
Active == {r \in Replicas : pc[r] = "active"}

\* "Enabling this will ensure there is only one active controller manager",
\* through crashes, lost leases and restarts of any replica.
OneActive == flags.leaderElect = TRUE => Cardinality(Active) <= 1

\* As failures cease, some replica is active again and again: the lease of a
\* dead leader does not stay in the way.
TakesOver == []<>(Active # {})

(***************************************************************************)
(* The inductive invariant behind OneActive.                               *)
(***************************************************************************)
Labels == {"boot", "newManager", "setup", "start", "standby", "active", "exited"}

ManagerTypeOK ==
  /\ env \in Environments /\ flags \in Flags
  /\ pc \in [Replicas -> Labels]
  /\ config \in [Replicas -> {NoConfig, parseConfig(env, flags)}]
  /\ registered \in [Replicas -> 0 .. Len(Controllers)]
  /\ lease \in Replicas \cup {Unset}
  /\ failures \in Nat

\* A replica runs with what the flags say; one that was told to elect a leader
\* holds the lease while it is active.
LeaderInv ==
  /\ ManagerTypeOK
  /\ \A r \in Replicas : pc[r] # "boot" => config[r] = parseConfig(env, flags)
  /\ \A r \in Replicas : pc[r] = "active" /\ config[r].elect => lease = r
=============================================================================
