---------------------------- MODULE ShedderHistory ----------------------------
(***************************************************************************)
(* Shedder with history: how long ago the cars themselves obeyed, apart    *)
(* from the timers that the code keeps of its own acknowledged commands.   *)
(***************************************************************************)
EXTENDS Shedder

VARIABLES
  sinceObeyed,  \* ticks since a car obeyed a START_CHARGE or STOP_CHARGE
  sinceSet      \* per car: ticks since adjust last changed its current

history == <<sinceObeyed, sinceSet>>
historyVars == <<vars, history>>

StartStops == {"startCharge", "stop", "sunStop"}

HistoryTypeInv ==
  /\ TypeInv
  /\ sinceObeyed \in 0..Guard
  /\ sinceSet \in [Fleet -> 0..FloorCap]

HistoryInit ==
  /\ Init
  /\ sinceObeyed = Guard
  /\ sinceSet = [v \in Fleet |-> FloorCap]

(* The main loop changes car v in this step. *)
Obeys(v) == at' # at /\ car'[v] # car[v]

Record(one) ==
  /\ sinceObeyed' = IF at \in StartStops /\ \E v \in Fleet : Obeys(v) THEN 0
                    ELSE Sooner(sinceObeyed + one, Guard)
  /\ sinceSet' = [v \in Fleet |-> IF at = "setAmps" /\ Obeys(v) THEN 0
                                  ELSE Sooner(sinceSet[v] + one, FloorCap)]

HistoryNext ==
  \/ (Tick /\ Record(1))
  \/ ((MainLoop \/ Input \/ Owners \/ ChangeHour) /\ Record(0))

HistorySpec == HistoryInit /\ [][HistoryNext]_historyVars

-----------------------------------------------------------------------------
RepliesArrive == "lost" \notin here.outcomes

(* While no reply is lost, a car obeys a START_CHARGE, or a STOP_CHARGE of  *)
(* sun charging, no sooner than the guard time after any car obeyed its     *)
(* last one: "Ensure start/stop is not called too often"                    *)
(* (charge_controller.py:230).  One timer serves all cars and all calls.    *)
GuardKept ==
  [][\A v \in Fleet :
       RepliesArrive /\ at \in {"startCharge", "sunStop"} /\ Obeys(v)
         => sinceObeyed >= Guard]_historyVars

(* While no reply is lost, a car that adjust has set to another current is  *)
(* not cut until the floor time has passed since (charge_controller.py:455).*)
CutAfterFloorTime ==
  [][\A v \in Fleet :
       RepliesArrive /\ at \in {"stop", "sunStop"} /\ Obeys(v)
         => sinceSet[v] > MaxFloor]_historyVars
=============================================================================
