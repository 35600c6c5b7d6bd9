--------------------------- MODULE MCShedderProcess ---------------------------
(* Small instances of ShedderProcess for TLC. *)
EXTENDS ShedderProcess

CONSTANTS k1, k2
=============================================================================
