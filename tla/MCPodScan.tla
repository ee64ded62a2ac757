------------------------------ MODULE MCPodScan ------------------------------
(***************************************************************************)
(* PodScan on lists of up to three pods out of nine that differ in what    *)
(* the loops tell apart: exits with different codes and numbers of         *)
(* attempts, a main container without a status, image pulls of init and of *)
(* other containers, and pods that succeeded.                              *)
(***************************************************************************)
EXTENDS PodScan

status(name, state, reason, code, lastCode, restarts) ==
  [name |-> name, state |-> state, reason |-> reason, code |-> code,
   lastCode |-> lastCode, lastReason |-> "OOMKilled", restarts |-> restarts,
   ready |-> state = "running"]

pod(phase, conds, inits, containers) ==
  [phase |-> phase, conds |-> conds, main |-> "main", inits |-> inits,
   containers |-> containers]

sidecar == status("sidecar", "running", "", 0, NoCode, 0)

MCPodSet ==
  {pod("Pending", "nil", <<>>, <<>>),
   pod("Pending", "notReady", <<status("init", "waiting", "ErrImagePull", 0, NoCode, 0)>>, <<>>),
   pod("Pending", "notReady", <<>>,
       <<sidecar, status("main", "waiting", "ImagePullBackOff", 0, NoCode, 0)>>),
   pod("Running", "ready", <<>>, <<sidecar, status("main", "running", "", 0, 1, 1)>>),
   pod("Running", "ready", <<>>, <<sidecar, status("main", "running", "", 0, 0, 1)>>),
   pod("Running", "notReady", <<>>, <<status("main", "waiting", "CrashLoopBackOff", 0, 2, 2), sidecar>>),
   pod("Running", "ready", <<>>, <<sidecar>>),
   pod("Failed", "ready", <<>>, <<sidecar, status("main", "terminated", "Error", 1, NoCode, 0)>>),
   pod("Succeeded", "ready", <<>>, <<status("main", "terminated", "Completed", 0, NoCode, 0)>>)}
=============================================================================
