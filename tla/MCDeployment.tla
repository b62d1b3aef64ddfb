----------------------------- MODULE MCDeployment -----------------------------
(* Instances of Deployment for TLC. *)
EXTENDS Deployment, TLC

Symmetry == Permutations(Apps) \cup Permutations(Versions)
=============================================================================
