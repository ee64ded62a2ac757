------------------------------ MODULE Handlers ------------------------------
(***************************************************************************)
(* The handlers that the service, kfjob and cluster packages each repeat   *)
(* from the job package: the dispatch of Reconcile, start time,            *)
(* finalizers, reports, log collection and TTL.  A controller's module     *)
(* makes of each the one of its own copy of the code, under the name it    *)
(* has there.  The underlying runtime is reconciled from the label         *)
(* "runtime" on.                                                           *)
(***************************************************************************)
EXTENDS Kube

Dispatch(instance) ==
  IF instance.life = "deleting" \/ IsDone(instance.status)
  THEN IF IsDone(instance.status) THEN "collect" ELSE "syncStopped"
  ELSE IF EnableLogsFinalizers /\ "logs" \notin instance.fins
  THEN "addLogs"
  ELSE IF EnableStatusFinalizers /\ "status" \notin instance.fins
  THEN "addStatus"
  ELSE "runtime"

FetchOp ==
  /\ pc = "idle" /\ queued
  /\ queued' = FALSE
  /\ IF opCache.life = "gone"
     THEN UNCHANGED <<worker, current>>
     ELSE /\ inst' = opCache
          /\ pc' = IF opCache.status.start THEN Dispatch(opCache) ELSE "addStart"
          /\ Keep(IF "opCache" \in current THEN current \cup {"inst"} ELSE current)
          /\ UNCHANGED <<found, then>>
  /\ UNCHANGED <<cluster, elsewhere, timer, plane, faults>>

SetStartTime ==
  /\ pc = "addStart"
  /\ LET new == [inst EXCEPT !.status.start = TRUE]
     IN  Write(new, inst' = op' /\ Goto(Dispatch(new)))
  /\ UNCHANGED <<elsewhere, timer, plane>>

SetFinalizer(label, finalizer) ==
  /\ pc = label
  /\ LET new == [inst EXCEPT !.fins = @ \cup {finalizer}]
     IN  Write(new, inst' = op' /\ Goto(Dispatch(new)))
  /\ UNCHANGED <<elsewhere, timer, plane>>

SetLogsFinalizer == SetFinalizer("addLogs", "logs")

SetStatusFinalizer == SetFinalizer("addStatus", "status")

StoreStatus ==
  /\ pc = "write"
  /\ Write(inst, inst' = op' /\ Goto("sync"))
  /\ UNCHANGED <<elsewhere, timer, plane>>

\* A failed report is ignored.
ReportStatus ==
  /\ pc = "sync"
  /\ syncStatus(inst.status.last.type)
  /\ \/ then = "done" /\ Return
     \/ then \in {"error", "requeue"} /\ ReturnError
     \/ then \notin {"done", "error", "requeue"} /\ Goto(then) /\ UNCHANGED inst
  /\ Keep(current)
  /\ UNCHANGED <<cluster, elsewhere, timer>>

ReportStopped ==
  /\ pc = "syncStopped"
  /\ syncStatus("Stopped")
  /\ Goto("collect") /\ UNCHANGED <<inst, current>>
  /\ UNCHANGED <<cluster, elsewhere, timer>>

\* What Reconcile does once handleFinalizers has returned nil.
AfterFinalizers ==
  IF inst.life = "deleting" THEN Return ELSE Goto("cleanup") /\ UNCHANGED inst

\* A failed collection ends handleFinalizers without an error.
CollectHeld ==
  /\ pc = "collect"
  /\ \/ /\ "logs" \in inst.fins
        /\ collected' = TRUE
        /\ Goto("removeFinalizer") /\ UNCHANGED <<inst, faults>>
     \/ /\ "logs" \in inst.fins /\ CollectLogs
        /\ Fail
        /\ AfterFinalizers /\ UNCHANGED collected
     \/ /\ "logs" \notin inst.fins /\ "status" \in inst.fins
        /\ Goto("removeFinalizer") /\ UNCHANGED <<inst, collected, faults>>
     \/ /\ inst.fins = {}
        /\ AfterFinalizers /\ UNCHANGED <<collected, faults>>
  /\ Keep(current)
  /\ UNCHANGED <<cluster, elsewhere, timer, reported, latest>>

\* One finalizer per reconciliation, logs first.
ReleaseFinalizer ==
  /\ pc = "removeFinalizer"
  /\ LET first == IF "logs" \in inst.fins THEN "logs" ELSE "status"
     IN  Write([inst EXCEPT !.fins = @ \ {first}],
               IF inst.life = "deleting" THEN Return
               ELSE inst' = op' /\ Goto("cleanup"))
  /\ UNCHANGED <<elsewhere, timer, plane>>

\* A done operation is deleted at once without a TTL, else when the TTL has
\* passed since CompletionTime.  Without a CompletionTime the code dereferences
\* nil; the panic ends the reconciliation as an error.
CleanUp ==
  /\ pc = "cleanup"
  /\ \/ /\ ~TTL \/ (inst.status.completion /\ expired)
        /\ Delete(FALSE)
     \/ /\ TTL /\ ~(inst.status.completion /\ expired)
        /\ IF inst.status.completion
           THEN timer' = TRUE /\ Return
           ELSE timer' = timer /\ ReturnError
        /\ Keep(current) /\ UNCHANGED <<cluster, faults>>
  /\ UNCHANGED <<elsewhere, plane>>

(***************************************************************************)
(* What the properties of the controllers speak of: the outcome of an      *)
(* operation, and the operation as OperationLifecycle sees it.             *)
(***************************************************************************)
Outcomes(status) == status.has \cap FinalTypes

Outcome == IF IsDone(op.status) THEN CHOOSE t \in Outcomes(op.status) : TRUE ELSE "none"

Abstract == INSTANCE OperationLifecycle
              WITH outcome <- Outcome, life <- op.life, holding <- "logs" \in op.fins,
                   collected <- collected
=============================================================================
