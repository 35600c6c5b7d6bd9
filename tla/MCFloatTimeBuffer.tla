-------------------------- MODULE MCFloatTimeBuffer --------------------------
(* A small instance of FloatTimeBuffer for TLC. *)
EXTENDS FloatTimeBuffer
=============================================================================
