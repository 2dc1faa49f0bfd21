-------------------------- MODULE MCDeployService --------------------------
(* Small instances of DeployService for TLC. *)
EXTENDS DeployService, TLC

Symmetric == Permutations(Requests) \cup Permutations(Versions) \cup Permutations(Procs)
============================================================================
