------------------------------ MODULE MCManager ------------------------------
(***************************************************************************)
(* Environments and command lines for module Manager.                      *)
(***************************************************************************)
EXTENDS Manager

SomeEnvironments ==
  [LeaderElection : {"true", Unset}, SingleNamespace : {"true", "garbage", Unset},
   Namespace : {"team", Unset}]

SomeFlags == [leaderElect : {TRUE, Unset}, namespace : {"other", Unset}]
=============================================================================
