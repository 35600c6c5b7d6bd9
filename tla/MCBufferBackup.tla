---------------------------- MODULE MCBufferBackup ----------------------------
(* Small instances of BufferBackup for TLC. *)
EXTENDS BufferBackup

(* The first digits of a timestamp are a much earlier one. *)
MCCutTimes == {-1}
=============================================================================
