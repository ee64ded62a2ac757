-------------------------- MODULE MCKfJobController --------------------------
(***************************************************************************)
(* The setups of KfJobController that TLC looks at.                        *)
(***************************************************************************)
EXTENDS KfJobController

\* A TFJob under an operator with its default environment, where nothing goes
\* wrong.
Plain ==
  [EnableLogsFinalizers |-> TRUE, EnableStatusFinalizers |-> FALSE,
   SyncStatuses |-> TRUE, CollectLogs |-> TRUE, TTL |-> TRUE,
   MayDelete |-> TRUE, OrderedWatches |-> FALSE,
   MaxFaults |-> 0, MaxCrashes |-> 0, MaxRemovals |-> 0,
   Kind |-> "TFJob", Enabled |-> TRUE, KfCleanup |-> FALSE,
   Failures |-> {}, MaxRestarts |-> 0]

\* The job ends in every way it can, also after its pod was replaced.
Ending == [Plain EXCEPT !.Failures = {"badImage", "fail", "restart"}, !.MaxRestarts = 1]

\* Any one call fails or loses its answer, and the operator restarts once.
Faulty ==
  [Plain EXCEPT !.Kind = "PytorchJob", !.TTL = FALSE, !.MaxFaults = 1, !.MaxCrashes = 1,
                !.Failures = {"badImage"}]

\* The job is deleted once by somebody else, and finished jobs are cleaned up.
Removed ==
  [Plain EXCEPT !.Kind = "MPIJob", !.EnableLogsFinalizers = FALSE,
                !.EnableStatusFinalizers = TRUE, !.MaxRemovals = 1, !.KfCleanup = TRUE,
                !.Failures = {"fail"}]

\* The operator was started without the watch of the kind.
Unwatched == [Plain EXCEPT !.Enabled = FALSE, !.MayDelete = FALSE]

SomeSetups == {Ending, Faulty, Removed, Unwatched}
=============================================================================
