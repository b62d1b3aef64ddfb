------------------------- MODULE MCConnectorRuntime -------------------------
(* Instances of ConnectorRuntime for TLC. *)
EXTENDS ConnectorRuntime, TLC

Symmetry == Permutations(Invocations) \cup Permutations(Apps) \cup Permutations(Closers)
=============================================================================
