------------------------------- MODULE Vehicles -------------------------------
(***************************************************************************)
(* The cars, and what the controller knows of them.                        *)
(*                                                                         *)
(* A car is reached through the manufacturer's API (the TeslaPy library):  *)
(* a call reads its data or sends it a command, and either may fail.  The  *)
(* car itself is external; its owner drives it, plugs it in and sets its   *)
(* current and its charging schedule at any time.  The controller keeps    *)
(* the data of the last successful read (the Vehicle object is a dict) and *)
(* decides on that.                                                        *)
(***************************************************************************)
EXTENDS Integers, FiniteSets, FiniteSetsExt

CONSTANTS Fleet,       \* the vehicles of the account
          NoData,      \* data that has never been read
          MinCurrent,  \* MIN_CURRENT
          MaxCurrent,  \* charge_current_request_max
          World        \* by name: what the surroundings may do

ASSUME CurrentAssumption ==
  MinCurrent \in Nat \ {0} /\ MaxCurrent \in Nat /\ MinCurrent <= MaxCurrent
(* stale: reads may fail or be postponed by sleep_time; outcomes: what may  *)
(* become of a command; moves: what the owners do.  Other modules add to it.*)
ASSUME FaultAssumption ==
  \A w \in DOMAIN World :
    /\ World[w].stale \in BOOLEAN
    /\ World[w].outcomes \subseteq {"ok", "refused", "lost"}
    /\ World[w].moves \subseteq {"drive", "start", "stop", "complete", "amps", "mode"}

VARIABLES
  world, \* the name of the surroundings, the same for a whole behaviour
  car,   \* the cars as they are
  snap   \* per car: its data as last read

here == World[world]

Amps == MinCurrent..MaxCurrent

(* charging: the car draws current; stopped: it could, battery_level being  *)
(* below charge_limit_soc; complete: it has reached that limit.  sun: its   *)
(* schedule is on and starts at the magic minute (check_sun_enabled).       *)
Cars == [home : BOOLEAN, charging : {"charging", "stopped", "complete"},
         amps : Amps, sun : BOOLEAN]

VehiclesTypeInv ==
  /\ world \in DOMAIN World
  /\ car \in [Fleet -> Cars]
  /\ snap \in [Fleet -> Cars \cup {NoData}]

-----------------------------------------------------------------------------
(* get_vehicle_data of the vehicles in V: the snapshots it may leave behind *)
(* when it starts from `base` and the cars are `cars`.  Every error is      *)
(* swallowed, and the old data stays.                                       *)
Reads(base, cars, V) ==
  {[v \in Fleet |-> IF v \in fresh THEN cars[v] ELSE base[v]] :
     fresh \in IF here.stale THEN SUBSET V ELSE {V}}

(* at_location and check_sun_enabled, with their defaults for missing data. *)
AtLocation(data) == data # NoData => data.home
SunEnabled(data) == data # NoData /\ data.sun
Charging(data) == data # NoData /\ data.charging = "charging"

(* A command: the car refuses one that does not fit its state, and then as  *)
(* after any other error the library raises.  A lost reply raises too, but  *)
(* the car has obeyed.                                                      *)
Accepts(c, command) ==
  CASE command = "START_CHARGE" -> c.charging = "stopped"
    [] command = "STOP_CHARGE"  -> c.charging = "charging"
    [] OTHER                    -> TRUE

Obeyed(c, command, amps) ==
  CASE command = "START_CHARGE"       -> [c EXCEPT !.charging = "charging"]
    [] command = "STOP_CHARGE"        -> [c EXCEPT !.charging = "stopped"]
    [] command = "CHARGING_AMPS"      -> [c EXCEPT !.amps = amps]
    [] command = "SCHEDULED_CHARGING" -> [c EXCEPT !.sun = FALSE]

(* The results of sending it to car v: did the call return, and the cars.  *)
Sent(v, command, amps) ==
  LET cars == [car EXCEPT ![v] = Obeyed(car[v], command, amps)]
  IN  {[ok |-> FALSE, cars |-> car] : o \in {"refused"} \cap here.outcomes}
        \cup (IF Accepts(car[v], command)
              THEN {[ok |-> o = "ok", cars |-> cars] : o \in {"ok", "lost"} \cap here.outcomes}
              ELSE {[ok |-> FALSE, cars |-> car]})

-----------------------------------------------------------------------------
(* The owners, and the cars' own schedules. *)
Become(v, c) == car' = [car EXCEPT ![v] = c]

Drive(v) ==
  /\ "drive" \in here.moves
  /\ \E now \in {"charging", "stopped"} :
       Become(v, [car[v] EXCEPT !.home = ~@, !.charging = now])
OwnStart(v) ==
  /\ "start" \in here.moves /\ car[v].charging = "stopped"
  /\ Become(v, [car[v] EXCEPT !.charging = "charging"])
OwnStop(v) ==
  /\ "stop" \in here.moves /\ car[v].charging = "charging"
  /\ Become(v, [car[v] EXCEPT !.charging = "stopped"])
Complete(v) ==
  /\ "complete" \in here.moves /\ car[v].charging = "charging"
  /\ Become(v, [car[v] EXCEPT !.charging = "complete"])
OwnAmps(v) ==
  /\ "amps" \in here.moves
  /\ \E a \in Amps \ {car[v].amps} : Become(v, [car[v] EXCEPT !.amps = a])
OwnMode(v) ==
  /\ "mode" \in here.moves
  /\ Become(v, [car[v] EXCEPT !.sun = ~@])

Move == \E v \in Fleet :
  Drive(v) \/ OwnStart(v) \/ OwnStop(v) \/ Complete(v) \/ OwnAmps(v) \/ OwnMode(v)
=============================================================================
