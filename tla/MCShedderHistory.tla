--------------------------- MODULE MCShedderHistory ---------------------------
(* Small instances of ShedderHistory for TLC. *)
EXTENDS ShedderHistory
Worlds == INSTANCE MCWorlds
HistoryWorld == Worlds!HistoryWorld
=============================================================================
