-------------------------- MODULE MCAvsStatusInfo --------------------------
(* Small instances of AvsStatusInfo; the gap and the cycle differ per run. *)
EXTENDS AvsStatusInfo

CONSTANTS e1, e2
=============================================================================
