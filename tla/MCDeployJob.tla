---------------------------- MODULE MCDeployJob ----------------------------
(* Instances of DeployJob for TLC. *)
EXTENDS DeployJob, TLC

Symmetry == Permutations(Handlers) \cup Permutations(Docs)
=============================================================================
