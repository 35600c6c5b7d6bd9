--------------------------- MODULE ChargeController ---------------------------
(***************************************************************************)
(* Class ChargeController (shedder/charge_controller.py): picks a car,     *)
(* adjusts its charging current, cuts it off when it has been on the       *)
(* lowest current for long enough, and starts cars on solar surplus.       *)
(*                                                                         *)
(* One thread runs it.  A step here lies between two calls to the cars'    *)
(* API: reads and the decision taken on them, or one command with what the *)
(* code does after it.  Cars, owners and the clock move between steps.     *)
(*                                                                         *)
(* The code compares ages, never clock readings, so the state is ages in   *)
(* ticks, each one held at the first value where no comparison changes.    *)
(***************************************************************************)
EXTENDS Vehicles

CONSTANTS NoVehicle,     \* Python's None
          MaxFloor,      \* max_floor_time
          Jitter,        \* what int(random.random()*120) may add to it
          Guard,         \* start_stop_guard_time
          MaxStep        \* the largest amps argument of adjust

ASSUME ControllerAssumption ==
  MaxFloor \in Nat /\ Jitter \in Nat /\ Guard \in Nat /\ MaxStep \in Nat \ {0}

VARIABLES
  included,        \* dynamic setting included_cars
  sunHours,        \* the hour is within sun_charge_start_hour..stop_hour
  floorAge,        \* per car: time since floor_time was set
  sinceStartStop,  \* time since last_start_stop
  at,              \* where the thread is
  job,             \* the adjustment it is about to do or is doing
  todo,            \* cars sun_charge_start_minimum has still to visit
  invited          \* the included_cars it took when it began

known == <<world, car, snap>>
ages == <<floorAge, sinceStartStop>>
visit == <<todo, invited>>
control == <<at, job, visit>>

(* v: the car chosen; up, amps: arguments of adjust; sun: choose among cars *)
(* in sun mode; target: the current to set; back: where adjust returns to.  *)
Jobs == [v : Fleet \cup {NoVehicle}, up : BOOLEAN, amps : 1..MaxStep,
         sun : BOOLEAN, target : Amps, back : {"normal", "adjusted"}]

Job(up, amps, sun, back) ==
  [v |-> NoVehicle, up |-> up, amps |-> amps, sun |-> sun,
   target |-> MinCurrent, back |-> back]

Places == {"top", "sunCheck", "normal", "adjusted", "sleep",
           "pick", "adjust", "setAmps", "shed", "schedule", "stop", "sunStop",
           "start", "startAmps", "startCharge"}

FloorCap == MaxFloor + Jitter + 1

ControllerTypeInv ==
  /\ VehiclesTypeInv
  /\ included \subseteq Fleet
  /\ sunHours \in BOOLEAN
  /\ floorAge \in [Fleet -> 0..FloorCap]
  /\ sinceStartStop \in 0..Guard
  /\ at \in Places
  /\ job \in Jobs
  /\ todo \subseteq Fleet /\ invited \subseteq Fleet

Goto(place) == at' = place
NoJob == Job(FALSE, 1, FALSE, "adjusted")
Return == Goto(job.back) /\ job' = NoJob
ResetFloor(v) == floorAge' = [floorAge EXCEPT ![v] = 0]

(* sun_charge_enabled on given data. *)
SunChargeEnabled(data) == sunHours /\ \E v \in included : SunEnabled(data[v])

-----------------------------------------------------------------------------
(* get_random_vehicle.  One included car without data makes it raise, and   *)
(* it returns None.                                                         *)
Candidates(data) ==
  {v \in included : Charging(data[v]) /\ (job.sun => SunEnabled(data[v]))}

Choice(data) ==
  IF (\E v \in included : data[v] = NoData) \/ Candidates(data) = {}
  THEN {NoVehicle} ELSE Candidates(data)

PickRandom ==
  /\ at = "pick"
  /\ \E data \in Reads(snap, car, Fleet) :
       /\ snap' = data
       /\ \E v \in Choice(data) :
            IF v = NoVehicle THEN Return
            ELSE Goto("adjust") /\ job' = [job EXCEPT !.v = v]
  /\ UNCHANGED <<world, car, included, sunHours, floorAge, sinceStartStop, visit>>

(* adjust, up to its first command.  A car that was chosen has data. *)
(* Mutants: short of the maximum; below the minimum; the sum of the way up. *)
UpToShort(amps) == IF amps + job.amps < MaxCurrent THEN amps + job.amps ELSE amps
DownToAny(amps) == amps - job.amps
DownLikeUp(amps) == IF amps + job.amps < MaxCurrent THEN amps + job.amps ELSE MaxCurrent

UpTo(amps) == IF amps + job.amps < MaxCurrent THEN amps + job.amps ELSE MaxCurrent
DownTo(amps) == IF amps - job.amps > MinCurrent THEN amps - job.amps ELSE MinCurrent

(* The read at the end of adjust. *)
ReadAgain(data) == snap' \in Reads(data, car, {job.v})

NotChargingHere(c) == ~AtLocation(c) \/ ~Charging(c)

(* Mutant: on the lowest current the command is sent again. *)
CanMoveAtFloor(c) == IF job.up THEN c.amps < MaxCurrent ELSE c.amps >= MinCurrent

CanMove(c) == IF job.up THEN c.amps < MaxCurrent ELSE c.amps > MinCurrent

(* Mutant: the random part shortens the floor time. *)
FloorTimeShort == \E extra \in 0..Jitter : floorAge[job.v] + extra > MaxFloor

FloorTimeOver == \E extra \in 0..Jitter : floorAge[job.v] > MaxFloor + extra
MayWait == \E extra \in 0..Jitter : floorAge[job.v] <= MaxFloor + extra

Adjust ==
  /\ at = "adjust"
  /\ \E data \in Reads(snap, car, {job.v}) :
       LET c == data[job.v]
       IN  \/ /\ NotChargingHere(c)
              /\ ResetFloor(job.v) /\ Return /\ snap' = data
           \/ /\ ~NotChargingHere(c) /\ CanMove(c)
              /\ Goto("setAmps")
              /\ job' = [job EXCEPT !.target = IF job.up THEN UpTo(c.amps) ELSE DownTo(c.amps)]
              /\ snap' = data /\ UNCHANGED floorAge
           \/ /\ ~NotChargingHere(c) /\ ~CanMove(c)
              /\ job.up \/ MayWait
              /\ Return /\ ReadAgain(data) /\ UNCHANGED floorAge
           \/ /\ ~NotChargingHere(c) /\ ~CanMove(c)
              /\ ~job.up /\ FloorTimeOver
              /\ Goto("shed") /\ snap' = data /\ UNCHANGED <<job, floorAge>>
  /\ UNCHANGED <<world, car, included, sunHours, sinceStartStop, visit>>

(* Its CHARGING_AMPS command; a raised error ends adjust at once. *)
SetAmps ==
  /\ at = "setAmps"
  /\ \E reply \in Sent(job.v, "CHARGING_AMPS", job.target) :
       /\ car' = reply.cars
       /\ IF reply.ok
          THEN ResetFloor(job.v) /\ snap' \in Reads(snap, reply.cars, {job.v})
          ELSE UNCHANGED <<floorAge, snap>>
  /\ Return
  /\ UNCHANGED <<world, included, sunHours, sinceStartStop, visit>>

-----------------------------------------------------------------------------
(* Mutants: no guard time; the comparison turned round. *)
NoGuard == TRUE
GuardRunning == sinceStartStop < Guard

GuardOver == sinceStartStop >= Guard

(* shed, up to its first command: with a sun-mode car around, only such a   *)
(* car is stopped, and only outside the guard time.                         *)
Shed ==
  /\ at = "shed"
  /\ \E data \in Reads(snap, car, Fleet) :
       LET c == data[job.v]
       IN  \/ ~SunChargeEnabled(data) /\ Goto("schedule") /\ snap' = data /\ UNCHANGED job
           \/ /\ SunChargeEnabled(data)
              /\ IF SunEnabled(c) /\ Charging(c) /\ GuardOver
                 THEN Goto("sunStop") /\ snap' = data /\ UNCHANGED job
                 ELSE Return /\ ReadAgain(data)
  /\ UNCHANGED <<world, car, included, sunHours, ages, visit>>

(* Charging is postponed to a minute that is not the magic one. *)
Schedule ==
  /\ at = "schedule"
  /\ \E reply \in Sent(job.v, "SCHEDULED_CHARGING", 0) :
       /\ car' = reply.cars
       /\ IF reply.ok THEN Goto("stop") /\ UNCHANGED job ELSE Return
  /\ UNCHANGED <<world, snap, included, sunHours, ages, visit>>

(* shed catches the error of the sun-mode command itself, so that adjust   *)
(* reads the car once more.                                                *)
StopCharge ==
  /\ at \in {"stop", "sunStop"}
  /\ \E reply \in Sent(job.v, "STOP_CHARGE", 0) :
       /\ car' = reply.cars
       /\ sinceStartStop' = IF reply.ok THEN 0 ELSE sinceStartStop
       /\ snap' \in Reads(snap, reply.cars,
                          IF reply.ok \/ at = "sunStop" THEN {job.v} ELSE {})
  /\ Return
  /\ UNCHANGED <<world, included, sunHours, floorAge, visit>>

-----------------------------------------------------------------------------
(* sun_charge_start_minimum.  A car is judged on one read, then woken and   *)
(* read again; any error ends the whole visit.                              *)
(* Mutant: the test of sun_charge_stop. *)
WantsStop(v, data) == v \in invited /\ SunEnabled(data) /\ data.charging = "charging"

WantsStart(v, data) ==
  v \in invited /\ SunEnabled(data) /\ AtLocation(data) /\ data.charging = "stopped"

EndVisit ==
  Goto("pick") /\ todo' = {} /\ invited' = {} /\ job' = [job EXCEPT !.v = NoVehicle]

VisitNext ==
  /\ at = "start" /\ todo # {}
  /\ \E v \in todo : \E first \in Reads(snap, car, {v}) :
       /\ todo' = todo \ {v}
       /\ IF WantsStart(v, first[v])
          THEN /\ snap' \in Reads(first, car, {v})
               /\ IF GuardOver
                  THEN Goto("startAmps") /\ job' = [job EXCEPT !.v = v]
                  ELSE UNCHANGED <<at, job>>
          ELSE snap' = first /\ UNCHANGED <<at, job>>
  /\ UNCHANGED <<world, car, included, sunHours, ages, invited>>

VisitDone ==
  /\ at = "start" /\ todo = {}
  /\ EndVisit
  /\ UNCHANGED <<known, included, sunHours, ages>>

StartAmps ==
  /\ at = "startAmps"
  /\ \E reply \in Sent(job.v, "CHARGING_AMPS", MinCurrent) :
       /\ car' = reply.cars
       /\ IF reply.ok THEN Goto("startCharge") /\ UNCHANGED <<job, visit>> ELSE EndVisit
  /\ UNCHANGED <<world, snap, included, sunHours, ages>>

StartCharge ==
  /\ at = "startCharge"
  /\ \E reply \in Sent(job.v, "START_CHARGE", 0) :
       /\ car' = reply.cars
       /\ IF reply.ok
          THEN /\ sinceStartStop' = 0
               /\ Goto("start") /\ job' = [job EXCEPT !.v = NoVehicle] /\ UNCHANGED visit
          ELSE EndVisit /\ UNCHANGED sinceStartStop
  /\ UNCHANGED <<world, snap, included, sunHours, floorAge>>

-----------------------------------------------------------------------------
Sooner(a, b) == IF a < b THEN a ELSE b

Older ==
  /\ floorAge' = [v \in Fleet |-> Sooner(floorAge[v] + 1, FloorCap)]
  /\ sinceStartStop' = Sooner(sinceStartStop + 1, Guard)

ControllerStep ==
  \/ PickRandom \/ Adjust \/ SetAmps
  \/ Shed \/ Schedule \/ StopCharge
  \/ VisitNext \/ VisitDone \/ StartAmps \/ StartCharge
=============================================================================
