------------------------------ MODULE MCShedder ------------------------------
(* Small instances of Shedder for TLC. *)
EXTENDS Shedder
Worlds == INSTANCE MCWorlds
LiveWorld == Worlds!LiveWorld
SunHoursWorld == Worlds!SunHoursWorld
UnreadWorld == Worlds!UnreadWorld
=============================================================================
