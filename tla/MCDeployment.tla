---------------------------- MODULE MCDeployment ----------------------------
(***************************************************************************)
(* Instances of Deployment for TLC.                                        *)
(***************************************************************************)
EXTENDS Deployment, MCQuizCatalog

DeploymentSymmetry ==
  Permutations(Creates) \cup Permutations(SeedRuns) \cup Permutations(Servers)

=============================================================================
