------------------------------- MODULE Shedder -------------------------------
(***************************************************************************)
(* The main loop of shedder/shedder.py: every iteration takes a status of  *)
(* the metering, and adjusts at most one car in the sun branch and one in  *)
(* the normal branch, or one car down while the metering is offline.       *)
(*                                                                         *)
(* paho's thread changes the dynamic settings between any two steps        *)
(* (`input`).  The energy buffers and their sums appear as the status they *)
(* lead to; how they are kept is the matter of TimeBuffer and              *)
(* FloatTimeBuffer.                                                        *)
(***************************************************************************)
EXTENDS ChargeController

CONSTANT AdjustPeriod  \* adjust_period

(* import: power is imported; export: how the exported power compares with *)
(* sun_export_charge_level and _trigger; load: how the average power        *)
(* compares with the remaining allowed power and its deadbands.             *)
AllStatuses == [offline : BOOLEAN, import : BOOLEAN,
                export : {"below", "level", "trigger"},
                load : {"over", "within", "under"}]

(* cars: the cars at the start; statuses: what the metering may show;       *)
(* settings: what the users may set; hours: the values of sunHours.         *)
ASSUME ShedderAssumption ==
  /\ AdjustPeriod \in Nat
  /\ \A w \in DOMAIN World :
       /\ World[w].cars \subseteq [Fleet -> Cars]
       /\ World[w].statuses \subseteq AllStatuses /\ World[w].statuses # {}
       /\ World[w].settings \subseteq [enabled : BOOLEAN, included : SUBSET Fleet]
       /\ World[w].hours \subseteq BOOLEAN

VARIABLES
  enabled,     \* dynamic setting enabled
  status,      \* the energy status of this iteration
  sinceAdjust  \* time since last_adjust

vars == <<known, included, sunHours, ages, control, enabled, status, sinceAdjust>>

TypeInv ==
  /\ ControllerTypeInv
  /\ enabled \in BOOLEAN
  /\ status \in AllStatuses
  /\ sinceAdjust \in 0..AdjustPeriod + 1

(* last_start_stop is 0, long ago; the other timers start now.  The first   *)
(* read of a car may fail.                                                  *)
Init ==
  /\ world \in DOMAIN World
  /\ car \in here.cars
  /\ snap \in Reads([v \in Fleet |-> NoData], car, Fleet)
  /\ \E s \in here.settings : enabled = s.enabled /\ included = s.included
  /\ sunHours \in here.hours
  /\ floorAge = [v \in Fleet |-> 0]
  /\ sinceStartStop = Guard
  /\ at = "top"
  /\ job = NoJob
  /\ todo = {} /\ invited = {}
  /\ status \in here.statuses
  /\ sinceAdjust = 0

-----------------------------------------------------------------------------
(* Mutant: an offline meter is handled although control is disabled. *)
OfflineFirst(s) ==
  IF s.offline THEN "pick" ELSE IF enabled THEN "sunCheck" ELSE "sleep"

Branch(s) == IF ~enabled THEN "sleep" ELSE IF s.offline THEN "pick" ELSE "sunCheck"

(* period_status, get_car_status, and what decides between the branches. *)
StartIteration ==
  /\ at = "top"
  /\ status' \in here.statuses
  /\ snap' \in Reads(snap, car, Fleet)
  /\ Goto(Branch(status'))
  /\ job' = Job(FALSE, 1, FALSE, "adjusted")
  /\ UNCHANGED <<world, car, included, sunHours, ages, visit, enabled, sinceAdjust>>

(* The sun branch, on the instantaneous power. *)
SunJob(up, amps) == Job(up, amps, TRUE, "normal")

SunBranch ==
  /\ at = "sunCheck"
  /\ \E data \in Reads(snap, car, Fleet) :
       /\ snap' = data
       /\ IF ~SunChargeEnabled(data)
          THEN Goto("normal") /\ UNCHANGED <<job, visit>>
          ELSE \/ /\ status.import
                  /\ \E amps \in 1..MaxStep : job' = SunJob(FALSE, amps)
                  /\ Goto("pick") /\ UNCHANGED visit
               \/ /\ ~status.import /\ status.export = "below"
                  /\ job' = SunJob(FALSE, 1)
                  /\ Goto("pick") /\ UNCHANGED visit
               \/ /\ ~status.import /\ status.export \in {"level", "trigger"}
                  /\ \E amps \in 1..MaxStep : job' = SunJob(TRUE, amps)
                  /\ IF status.export = "trigger"
                     THEN Goto("start") /\ todo' = Fleet /\ invited' = included
                     ELSE Goto("pick") /\ UNCHANGED visit
  /\ UNCHANGED <<world, car, included, sunHours, ages, enabled, status, sinceAdjust>>

(* The normal branch.  The counts are over all cars, included or not. *)
HomeCount(data) == Cardinality({v \in Fleet : AtLocation(data[v])})
SunCount(data) ==
  Cardinality({v \in Fleet : SunEnabled(data[v]) /\ AtLocation(data[v])})

NormalWanted(data) ==
  /\ ~SunChargeEnabled(data) \/ HomeCount(data) > SunCount(data)
  /\ status.load \in {"over", "under"}
  /\ sinceAdjust > AdjustPeriod

NormalBranch ==
  /\ at = "normal"
  /\ \E data \in Reads(snap, car, Fleet) :
       /\ snap' = data
       /\ IF NormalWanted(data)
          THEN Goto("pick") /\ job' = Job(status.load = "under", 1, FALSE, "adjusted")
          ELSE Goto("sleep") /\ UNCHANGED job
  /\ UNCHANGED <<world, car, included, sunHours, ages, visit, enabled, status, sinceAdjust>>

(* adjust has returned to the offline or the normal branch. *)
Adjusted ==
  /\ at = "adjusted"
  /\ sinceAdjust' = 0
  /\ Goto("sleep")
  /\ UNCHANGED <<known, included, sunHours, ages, job, visit, enabled, status>>

Sleep ==
  /\ at = "sleep"
  /\ Goto("top")
  /\ UNCHANGED <<known, included, sunHours, ages, job, visit, enabled, status, sinceAdjust>>

Controller == ControllerStep /\ UNCHANGED <<enabled, status, sinceAdjust>>
Pick(v) == PickRandom /\ job'.v = v /\ UNCHANGED <<enabled, status, sinceAdjust>>

MainLoop ==
  StartIteration \/ SunBranch \/ NormalBranch \/ Adjusted \/ Sleep \/ Controller

-----------------------------------------------------------------------------
(* paho's thread: a message on the control topic. *)
Input ==
  /\ \E s \in here.settings :
       /\ enabled' = s.enabled /\ included' = s.included
       /\ s # [enabled |-> enabled, included |-> included]
  /\ UNCHANGED <<known, sunHours, ages, control, status, sinceAdjust>>

Owners == Move /\ UNCHANGED <<world, snap, included, sunHours, ages, control,
                              enabled, status, sinceAdjust>>

ChangeHour ==
  /\ sunHours' \in here.hours \ {sunHours}
  /\ UNCHANGED <<known, included, ages, control, enabled, status, sinceAdjust>>

Tick ==
  /\ Older
  /\ sinceAdjust' = Sooner(sinceAdjust + 1, AdjustPeriod + 1)
  /\ UNCHANGED <<known, included, sunHours, control, enabled, status>>

Next == MainLoop \/ Input \/ Owners \/ ChangeHour \/ Tick

Spec == Init /\ [][Next]_vars

(* The loop runs for ever and time passes.  random.choice gives every car   *)
(* that is eligible again and again its turn: with probability one, not by  *)
(* a promise of the code.                                                   *)
Fairness ==
  /\ WF_vars(MainLoop)
  /\ WF_vars(Tick)
  /\ \A v \in Fleet : SF_vars(Pick(v))

FairSpec == Spec /\ Fairness

-----------------------------------------------------------------------------
(* The surroundings of the properties below.  Settled: control stays on for *)
(* car v and no call to a car fails.                                        *)
Settled(v) ==
  /\ ~here.stale /\ here.outcomes = {"ok"}
  /\ \A s \in here.settings : s.enabled /\ v \in s.included

TooMuch == \A s \in here.statuses : s.offline \/ s.load = "over"
ToSpare == \A s \in here.statuses : ~s.offline /\ s.load = "under"
SunShines ==
  \A s \in here.statuses : ~s.offline /\ ~s.import /\ s.export = "trigger" /\ s.load # "over"
NoSun ==
  \A s \in here.statuses :
    ~s.offline /\ (s.import \/ s.export = "below") /\ s.load = "within"
DayLong == here.hours = {TRUE} /\ here.moves \subseteq {"complete"}
Night == here.hours = {FALSE}

ChargesHere(v) == car[v].home /\ car[v].charging = "charging"

(* An adjustment down never leaves a car on a higher current than it had    *)
(* (charge_controller.py:447), though the reduction is computed from data   *)
(* that may miss several of the controller's own commands: outside the sun  *)
(* hours, where every step is of 1 A, while the owner leaves the current    *)
(* alone.                                                                   *)
DownNeverRaises ==
  [][Night /\ "amps" \notin here.moves /\ at = "setAmps" /\ at' # at /\ ~job.up
       => car'[job.v].amps <= car[job.v].amps]_vars

(* While the metering is offline or the load is too high, outside the sun   *)
(* hours, every included car that charges at home stops: "If trying to      *)
(* reduce charge power lower than min, cut power" (charge_controller.py:453).*)
(* It is picked, brought down to the lowest current step by step, and cut   *)
(* when it has been there for the floor time, though owners start their     *)
(* cars again and drive.                                                    *)
LoadIsShedAtNight ==
  \A v \in Fleet : Settled(v) /\ TooMuch /\ Night /\ ChargesHere(v) ~> ~ChargesHere(v)

(* While there is power to spare outside the sun hours every included car   *)
(* that charges at home comes to the largest current it asks for.           *)
PowerIsUsed ==
  \A v \in Fleet :
    Settled(v) /\ ToSpare /\ Night /\ ChargesHere(v)
      ~> (car[v].amps = MaxCurrent \/ ~ChargesHere(v))

(* While enough solar power is exported every included car in sun mode that *)
(* waits at home starts to charge, each one when the guard time of the      *)
(* start before it is over.                                                 *)
SunCarsStart ==
  \A v \in Fleet :
    Settled(v) /\ SunShines /\ DayLong /\ car[v].home /\ car[v].sun /\ car[v].charging = "stopped"
      ~> car[v].charging # "stopped"

(* While power is imported in sun hours every included car in sun mode that *)
(* charges at home stops, one guard time after the other.                   *)
SunCarsStop ==
  \A v \in Fleet :
    Settled(v) /\ NoSun /\ DayLong /\ car[v].sun /\ ChargesHere(v) ~> ~ChargesHere(v)

(* Once control is disabled for good the thread gives no more commands than *)
(* those of the iteration it is in (shedder.py:447).                        *)
DisabledGetsQuiet == <>[]~enabled => <>[](at \in {"top", "sleep"})

(* get_random_vehicle finds a "random vehicle from vehicles charging"       *)
(* (charge_controller.py:312) if there is one.                              *)
PicksIfAnyCharges ==
  [][at = "pick" /\ at' # at /\ Candidates(snap') # {} => at' = "adjust"]_vars
=============================================================================
