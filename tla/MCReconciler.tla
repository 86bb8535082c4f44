---------------------------- MODULE MCReconciler ----------------------------
(***************************************************************************)
(* Small instances of Reconciler: configurations and what users may do.    *)
(* The numbers of the configurations give their order of use.              *)
(***************************************************************************)
EXTENDS Reconciler

OneConfig == {1}
TwoConfigs == {1, 2}
ThreeConfigs == {1, 2, 3}

First == {1}
Second == {2}
Third == {3}

\* What users do besides creating a scenario, run by run.
StopAndDelete == {"suspend", "delete"}
DeleteUnderTakenName == {"suspend", "delete", "takeName"}
OnlyDelete == {"delete"}
EditAndSuspend == {"edit", "suspend"}
EditAndRevert == {"edit", "revert"}
=============================================================================
