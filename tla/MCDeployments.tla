--------------------------- MODULE MCDeployments ---------------------------
(* Small instances of DeploymentSystem for TLC. *)
EXTENDS DeploymentSystem, TLC

CONSTANTS d1, d2, g1, g2, t1, t2

Symmetry == Permutations(Deployments) \cup Permutations(Gpus) \cup Permutations(Txns)
=============================================================================
