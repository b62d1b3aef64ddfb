--------------------------- MODULE MCHttpDispatch ---------------------------
(* Instances of HttpDispatch for TLC. *)
EXTENDS HttpDispatch
=============================================================================
