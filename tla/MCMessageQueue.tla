--------------------------- MODULE MCMessageQueue ---------------------------
(* Small instances of MessageQueue: a few tasks and the stop task. *)
EXTENDS MessageQueue

CONSTANTS t1, t2, t3, t4
=============================================================================
