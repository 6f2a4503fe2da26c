------------------------- MODULE MCDeploymentOperations -----------------------
(* Model checking DeploymentOperations.  The processes are interchangeable, *)
(* which serves the runs without liveness.                                  *)
EXTENDS DeploymentOperations, TLC

ReplicaSymmetry == Permutations(Replicas)

=============================================================================
