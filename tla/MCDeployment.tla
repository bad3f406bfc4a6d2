---------------------------- MODULE MCDeployment -----------------------------
(* Four invocations of the deploy script with two versions.  The first may  *)
(* deploy a version, a second be refused meanwhile, a third fail or be      *)
(* killed half way, and a fourth repair it or roll back.                    *)
EXTENDS Deployment, TLC

CONSTANTS d1, d2, d3, d4, v1, v2

FourDeploys == {d1, d2, d3, d4}
TwoVersions == {v1, v2}

Symmetry == Permutations(FourDeploys) \cup Permutations(TwoVersions)
=============================================================================
