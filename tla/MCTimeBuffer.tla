----------------------------- MODULE MCTimeBuffer -----------------------------
(* Small instances of TimeBuffer for TLC. *)
EXTENDS TimeBuffer
=============================================================================
