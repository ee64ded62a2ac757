--------------------------- MODULE OperationLifecycle ---------------------------
(***************************************************************************)
(* What a controller promises about the life of one operation, whatever    *)
(* the caches, the retries and the restarts of the operator do:            *)
(*   - an outcome is recorded at most once, only while nobody has asked    *)
(*     for the operation to be deleted, and never changes afterwards;      *)
(*   - logs that are held back by the logs finalizer are collected before  *)
(*     the hold is released, and the operation only goes without a hold;   *)
(*   - an operation that is gone stays gone.                               *)
(***************************************************************************)

VARIABLES
  outcome,    \* "none", or the final condition of the operation
  life,       \* "live", "deleting" or "gone"
  holding,    \* the logs finalizer is on the operation
  collected   \* its logs have been collected

abstractVars == <<outcome, life, holding, collected>>

LifecycleInit ==
  /\ outcome = "none"
  /\ life = "live"
  /\ holding = FALSE
  /\ collected = FALSE

Finish ==
  /\ outcome = "none" /\ life = "live"
  /\ outcome' \in {"Succeeded", "Failed", "Stopped"}
  /\ UNCHANGED <<life, holding, collected>>

Hold ==
  /\ outcome = "none" /\ life = "live"
  /\ ~holding /\ holding' = TRUE
  /\ UNCHANGED <<outcome, life, collected>>

Collect ==
  /\ ~collected /\ collected' = TRUE
  /\ UNCHANGED <<outcome, life, holding>>

RequestDeletion ==
  /\ life = "live" /\ life' = "deleting"
  /\ UNCHANGED <<outcome, holding, collected>>

\* Releasing the hold of an operation that waits for nothing else removes it
\* in the same step.
Release ==
  /\ holding /\ collected
  /\ outcome # "none" \/ life = "deleting"
  /\ holding' = FALSE
  /\ \/ life' = life
     \/ life = "deleting" /\ life' = "gone"
  /\ UNCHANGED <<outcome, collected>>

Remove ==
  /\ life # "gone" /\ ~holding
  /\ life' = "gone"
  /\ UNCHANGED <<outcome, holding, collected>>

LifecycleNext == Finish \/ Hold \/ Collect \/ RequestDeletion \/ Release \/ Remove

LifecycleSpec == LifecycleInit /\ [][LifecycleNext]_abstractVars
=============================================================================
