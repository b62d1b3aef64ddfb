-------------------------- MODULE MCLocalDevServer --------------------------
(* LocalDevServer for TLC: its constants are sets of model values. *)
EXTENDS LocalDevServer
=============================================================================
