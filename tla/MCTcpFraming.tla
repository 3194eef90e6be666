---------------------------- MODULE MCTcpFraming ----------------------------
(* Small instances of TcpFraming; the lengths clients send differ per run. *)
EXTENDS TcpFraming
=============================================================================
