--------------------------- MODULE MCQueueDispatch ---------------------------
(* Instances of QueueDispatch for TLC. *)
EXTENDS QueueDispatch

TwoHandlers == <<"h1", "h2">>
OneHandler == <<"h1">>
=============================================================================
