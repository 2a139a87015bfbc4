---------------------- MODULE MCDeferredCheckpointJobs ----------------------
(***************************************************************************)
(* Instance of DeferredCheckpointJobs for TLC: a pre and a post of one     *)
(* repository, run by two daemon generations.                              *)
(***************************************************************************)
EXTENDS DeferredCheckpointJobs

CONSTANTS pre, post, R

MCRepoOf == [j \in {pre, post} |-> R]
MCPreOf == [j \in {pre, post} |-> IF j = post THEN pre ELSE NoJob]
MCGenerations == {1, 2}
=============================================================================
