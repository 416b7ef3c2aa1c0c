-------------------------- MODULE MCFinalityState --------------------------
(* A chain with forks, one validator set that qualifies and one that does  *)
(* not; the .cfg files choose the profile, the upgrade height and the      *)
(* bounds.                                                                 *)
EXTENDS FinalityState

MCSnapshotSets == {{1, 2}, {1}}
=============================================================================
