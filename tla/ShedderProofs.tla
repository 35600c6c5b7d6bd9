---------------------------- MODULE ShedderProofs ----------------------------
(***************************************************************************)
(* For any fleet, surroundings and settings of the timers: how adjustments *)
(* down, the guard time and the floor time are kept.                       *)
(***************************************************************************)
EXTENDS ShedderHistory, TLAPS

USE CurrentAssumption, ControllerAssumption, ShedderAssumption

Snaps == [Fleet -> Cars \cup {NoData}]
Commands == {"START_CHARGE", "STOP_CHARGE", "CHARGING_AMPS", "SCHEDULED_CHARGING"}

LEMMA HereIs ==
  ASSUME world \in DOMAIN World
  PROVE  /\ here.outcomes \subseteq {"ok", "refused", "lost"}
         /\ here.cars \subseteq [Fleet -> Cars]
         /\ here.statuses \subseteq AllStatuses
         /\ here.settings \subseteq [enabled : BOOLEAN, included : SUBSET Fleet]
         /\ here.hours \subseteq BOOLEAN
BY FaultAssumption DEF here

(* A read leaves the old data of a car or brings the car as it is. *)
LEMMA ReadsAre ==
  ASSUME NEW base \in Snaps, NEW cars \in [Fleet -> Cars], NEW V,
         NEW data \in Reads(base, cars, V)
  PROVE  /\ data \in Snaps
         /\ \A v \in Fleet : data[v] = base[v] \/ data[v] = cars[v]
<1>1. PICK fresh : data = [v \in Fleet |-> IF v \in fresh THEN cars[v] ELSE base[v]]
  BY DEF Reads
<1> QED BY <1>1 DEF Snaps

(* A command changes at most its car, and the current of it only when that  *)
(* is what it sets.                                                         *)
LEMMA ObeyedIs ==
  ASSUME NEW c \in Cars, NEW command \in Commands, NEW amps,
         command = "CHARGING_AMPS" => amps \in Amps
  PROVE  /\ Obeyed(c, command, amps) \in Cars
         /\ Obeyed(c, command, amps).amps = IF command = "CHARGING_AMPS" THEN amps ELSE c.amps
<1>1. CASE command = "START_CHARGE"
  BY <1>1 DEF Obeyed, Cars
<1>2. CASE command = "STOP_CHARGE"
  BY <1>2 DEF Obeyed, Cars
<1>3. CASE command = "CHARGING_AMPS"
  BY <1>3 DEF Obeyed, Cars
<1>4. CASE command = "SCHEDULED_CHARGING"
  BY <1>4 DEF Obeyed, Cars
<1> QED BY <1>1, <1>2, <1>3, <1>4 DEF Commands

LEMMA SentIs ==
  ASSUME VehiclesTypeInv, NEW v \in Fleet, NEW command \in Commands, NEW amps,
         command = "CHARGING_AMPS" => amps \in Amps,
         NEW reply \in Sent(v, command, amps)
  PROVE  /\ reply.cars \in [Fleet -> Cars]
         /\ \A u \in Fleet : reply.cars[u].amps =
              IF u = v /\ command = "CHARGING_AMPS" /\ reply.cars # car THEN amps ELSE car[u].amps
         /\ \A u \in Fleet : u # v => reply.cars[u] = car[u]
         /\ reply.cars # car /\ ~reply.ok => "lost" \in here.outcomes
<1> DEFINE new == [car EXCEPT ![v] = Obeyed(car[v], command, amps)]
<1>1. car \in [Fleet -> Cars]
  BY DEF VehiclesTypeInv
<1>2. /\ new \in [Fleet -> Cars]
      /\ \A u \in Fleet : new[u].amps =
           IF u = v /\ command = "CHARGING_AMPS" THEN amps ELSE car[u].amps
  <2>1. car[v] \in Cars
    BY <1>1
  <2>2. /\ Obeyed(car[v], command, amps) \in Cars
        /\ Obeyed(car[v], command, amps).amps
             = IF command = "CHARGING_AMPS" THEN amps ELSE car[v].amps
    BY <2>1, ObeyedIs
  <2> QED BY <1>1, <2>2
<1>3. \/ reply.cars = car
      \/ reply.cars = new /\ \E o \in {"ok", "lost"} \cap here.outcomes : reply.ok = (o = "ok")
  BY DEF Sent
<1> QED BY <1>1, <1>2, <1>3

-----------------------------------------------------------------------------
(* From the choice of a car to the last command to it, job names a car. *)
Underway == {"adjust", "setAmps", "shed", "schedule", "stop", "sunStop",
             "startAmps", "startCharge"}
Chosen == at \in Underway => job.v \in Fleet

TypeIInv == TypeInv /\ Chosen

LEMMA JobIs ==
  /\ NoJob \in Jobs
  /\ \A up \in BOOLEAN : Job(up, 1, FALSE, "adjusted") \in Jobs
  /\ \A amps \in 1..MaxStep : SunJob(TRUE, amps) \in Jobs /\ SunJob(FALSE, amps) \in Jobs
<1>1. 1 \in 1..MaxStep /\ MinCurrent \in Amps
  BY DEF Amps
<1> QED BY <1>1 DEF NoJob, SunJob, Job, Jobs

LEMMA InitType == Init => TypeIInv
<1> SUFFICES ASSUME Init PROVE TypeIInv
  OBVIOUS
<1>1. world \in DOMAIN World
  BY DEF Init
<1>2. car \in [Fleet -> Cars] /\ enabled \in BOOLEAN /\ included \subseteq Fleet
      /\ sunHours \in BOOLEAN /\ status \in AllStatuses
  BY <1>1, HereIs DEF Init
<1>3. snap \in Snaps
  <2>1. [v \in Fleet |-> NoData] \in Snaps
    BY DEF Snaps
  <2> QED BY <1>2, <2>1, ReadsAre DEF Init
<1>4. job \in Jobs
  BY JobIs DEF Init
<1>5. floorAge \in [Fleet -> 0..FloorCap] /\ sinceStartStop \in 0..Guard /\ todo \subseteq Fleet
      /\ invited \subseteq Fleet /\ sinceAdjust \in 0..AdjustPeriod + 1
  BY DEF Init, FloorCap
<1>6. at \in Places /\ Chosen
  BY DEF Init, Places, Chosen, Underway
<1> QED
  BY <1>1, <1>2, <1>3, <1>4, <1>5, <1>6
  DEF TypeIInv, TypeInv, ControllerTypeInv, VehiclesTypeInv, Snaps

(* Steps that leave the cars and the settings alone: what is read and where *)
(* the thread goes.                                                         *)
LEMMA ReadingKeepsType ==
  ASSUME TypeIInv,
         UNCHANGED <<world, car, included, sunHours, sinceStartStop, enabled>>,
         snap' \in Snaps, floorAge' \in [Fleet -> 0..FloorCap], job' \in Jobs,
         at' \in Places, Chosen', todo' \subseteq Fleet, invited' \subseteq Fleet,
         status' \in AllStatuses, sinceAdjust' \in 0..AdjustPeriod + 1
  PROVE  TypeIInv'
BY DEF TypeIInv, TypeInv, ControllerTypeInv, VehiclesTypeInv, Snaps

LEMMA LoopKeepsType ==
  ASSUME TypeIInv, StartIteration \/ SunBranch \/ NormalBranch \/ Adjusted \/ Sleep
  PROVE  TypeIInv'
<1>1. snap \in Snaps /\ car \in [Fleet -> Cars] /\ job \in Jobs /\ floorAge \in [Fleet -> 0..FloorCap]
      /\ todo \subseteq Fleet /\ invited \subseteq Fleet /\ included \subseteq Fleet
      /\ status \in AllStatuses /\ sinceAdjust \in 0..AdjustPeriod + 1 /\ world \in DOMAIN World
  BY DEF TypeIInv, TypeInv, ControllerTypeInv, VehiclesTypeInv, Snaps
<1>2. CASE StartIteration
  <2>1. status' \in AllStatuses
    BY <1>1, <1>2, HereIs DEF StartIteration
  <2>2. snap' \in Snaps
    BY <1>1, <1>2, ReadsAre DEF StartIteration
  <2>3. job' \in Jobs
    BY <1>2, JobIs DEF StartIteration, NoJob
  <2>4. at' \in {"sleep", "pick", "sunCheck"}
    BY <1>2 DEF StartIteration, Goto, Branch
  <2> QED
    BY <1>1, <1>2, <2>1, <2>2, <2>3, <2>4, ReadingKeepsType
    DEF StartIteration, ages, visit, Places, Chosen, Underway
<1>3. CASE SunBranch
  <2>1. snap' \in Snaps
    BY <1>1, <1>3, ReadsAre DEF SunBranch
  <2>2. job' \in Jobs
    <3>1. 1 \in 1..MaxStep
      OBVIOUS
    <3> QED BY <1>1, <1>3, <3>1, JobIs DEF SunBranch
  <2>3. /\ at' \in {"normal", "pick", "start"}
        /\ todo' \subseteq Fleet /\ invited' \subseteq Fleet
    BY <1>1, <1>3 DEF SunBranch, Goto, visit
  <2> QED
    BY <1>1, <1>3, <2>1, <2>2, <2>3, ReadingKeepsType
    DEF SunBranch, ages, Places, Chosen, Underway
<1>4. CASE NormalBranch
  <2>1. snap' \in Snaps
    BY <1>1, <1>4, ReadsAre DEF NormalBranch
  <2>2. job' \in Jobs
    <3>1. CASE UNCHANGED job
      BY <1>1, <3>1
    <3>2. CASE job' = Job(status.load = "under", 1, FALSE, "adjusted")
      <4>1. (status.load = "under") \in BOOLEAN
        OBVIOUS
      <4> QED BY <3>2, <4>1, JobIs
    <3> QED BY <1>4, <3>1, <3>2 DEF NormalBranch
  <2>3. at' \in {"pick", "sleep"}
    BY <1>4 DEF NormalBranch, Goto
  <2> QED
    BY <1>1, <1>4, <2>1, <2>2, <2>3, ReadingKeepsType
    DEF NormalBranch, ages, visit, Places, Chosen, Underway
<1>5. CASE Adjusted
  BY <1>1, <1>5, ReadingKeepsType
  DEF Adjusted, Goto, known, ages, visit, Places, Chosen, Underway
<1>6. CASE Sleep
  BY <1>1, <1>6, ReadingKeepsType
  DEF Sleep, Goto, known, ages, visit, Places, Chosen, Underway
<1> QED BY <1>2, <1>3, <1>4, <1>5, <1>6

(* Steps of the controller that send nothing. *)
LEMMA DecisionKeepsType ==
  ASSUME TypeIInv, UNCHANGED <<enabled, status, sinceAdjust>>,
         PickRandom \/ Adjust \/ Shed \/ VisitNext \/ VisitDone
  PROVE  TypeIInv'
<1>1. /\ snap \in Snaps /\ car \in [Fleet -> Cars] /\ job \in Jobs
      /\ floorAge \in [Fleet -> 0..FloorCap] /\ todo \subseteq Fleet /\ included \subseteq Fleet
      /\ invited \subseteq Fleet /\ status \in AllStatuses /\ sinceAdjust \in 0..AdjustPeriod + 1
  BY DEF TypeIInv, TypeInv, ControllerTypeInv, VehiclesTypeInv, Snaps
<1>2. \A v \in Fleet \cup {NoVehicle} : [job EXCEPT !.v = v] \in Jobs
  BY <1>1 DEF Jobs
<1>3. NoJob \in Jobs /\ job.back \in {"normal", "adjusted"}
  BY <1>1, JobIs DEF Jobs
<1>4. CASE PickRandom
  <2>1. snap' \in Snaps
    BY <1>1, <1>4, ReadsAre DEF PickRandom
  <2>2. PICK v \in Fleet \cup {NoVehicle} :
          IF v = NoVehicle THEN Return ELSE Goto("adjust") /\ job' = [job EXCEPT !.v = v]
    BY <1>1, <1>4 DEF PickRandom, Choice, Candidates
  <2>3. job' \in Jobs /\ at' \in Places /\ Chosen'
    <3>1. CASE v = NoVehicle
      BY <1>3, <2>2, <3>1 DEF Return, Goto, Places, Chosen, Underway
    <3>2. CASE v # NoVehicle
      <4>1. job'.v = v
        BY <1>1, <2>2, <3>2 DEF Jobs
      <4> QED BY <1>2, <2>2, <3>2, <4>1 DEF Goto, Places, Chosen, Underway
    <3> QED BY <3>1, <3>2
  <2> QED BY <1>1, <1>4, <2>1, <2>3, ReadingKeepsType DEF PickRandom, visit
<1>5. CASE Adjust
  <2>1. job.v \in Fleet
    BY <1>5 DEF Adjust, TypeIInv, Chosen, Underway
  <2>2. PICK data \in Reads(snap, car, {job.v}) :
          \/ ResetFloor(job.v) /\ Return /\ snap' = data
          \/ /\ ~NotChargingHere(data[job.v])
             /\ Goto("setAmps") /\ snap' = data /\ UNCHANGED floorAge
             /\ job' = [job EXCEPT !.target = IF job.up THEN UpTo(data[job.v].amps)
                                                         ELSE DownTo(data[job.v].amps)]
          \/ Return /\ ReadAgain(data) /\ UNCHANGED floorAge
          \/ Goto("shed") /\ snap' = data /\ UNCHANGED <<job, floorAge>>
    BY <1>5 DEF Adjust
  <2>3. data \in Snaps
    BY <1>1, ReadsAre
  <2>4. UNCHANGED <<world, car, included, sunHours, sinceStartStop, todo, invited>>
    BY <1>5 DEF Adjust, visit
  <2>5. snap' \in Snaps
    BY <1>1, <2>2, <2>3, ReadsAre DEF ReadAgain
  <2>6. floorAge' \in [Fleet -> 0..FloorCap]
    <3>1. 0 \in 0..FloorCap
      BY DEF FloorCap
    <3> QED BY <1>1, <2>2, <3>1 DEF ResetFloor
  <2>7. job' \in Jobs /\ at' \in Places /\ Chosen'
    <3>1. CASE Return
      BY <1>3, <3>1 DEF Return, Goto, Places, Chosen, Underway
    <3>2. CASE Goto("shed") /\ UNCHANGED job
      BY <1>1, <2>1, <3>2 DEF Goto, Places, Chosen
    <3>3. CASE /\ ~NotChargingHere(data[job.v]) /\ Goto("setAmps")
               /\ job' = [job EXCEPT !.target = IF job.up THEN UpTo(data[job.v].amps)
                                                           ELSE DownTo(data[job.v].amps)]
      <4>1. data[job.v].amps \in Amps /\ job.amps \in 1..MaxStep
        BY <1>1, <2>1, <2>3, <3>3 DEF NotChargingHere, Charging, Snaps, Cars, Jobs
      <4>2. UpTo(data[job.v].amps) \in Amps /\ DownTo(data[job.v].amps) \in Amps
        BY <4>1 DEF UpTo, DownTo, Amps
      <4>3. job' \in Jobs /\ job'.v = job.v
        BY <1>1, <3>3, <4>2 DEF Jobs
      <4> QED BY <2>1, <3>3, <4>3 DEF Goto, Places, Chosen
    <3> QED BY <2>2, <3>1, <3>2, <3>3
  <2> QED BY <1>1, <2>4, <2>5, <2>6, <2>7, ReadingKeepsType
<1>6. CASE Shed
  <2>1. job.v \in Fleet
    BY <1>6 DEF Shed, TypeIInv, Chosen, Underway
  <2>2. PICK data \in Reads(snap, car, Fleet) :
          \/ at' \in {"schedule", "sunStop"} /\ snap' = data /\ UNCHANGED job
          \/ Return /\ ReadAgain(data)
    BY <1>6 DEF Shed, Goto
  <2>3. data \in Snaps
    BY <1>1, ReadsAre
  <2>4. snap' \in Snaps
    BY <1>1, <2>2, <2>3, ReadsAre DEF ReadAgain
  <2>5. job' \in Jobs /\ at' \in Places /\ Chosen'
    BY <1>1, <1>3, <2>1, <2>2 DEF Return, Goto, Places, Chosen, Underway
  <2> QED BY <1>1, <1>6, <2>4, <2>5, ReadingKeepsType DEF Shed, ages, visit
<1>7. CASE VisitNext
  <2> DEFINE Visited(v, first) ==
               /\ todo' = todo \ {v}
               /\ \/ /\ snap' \in Reads(first, car, {v})
                     /\ \/ Goto("startAmps") /\ job' = [job EXCEPT !.v = v]
                        \/ UNCHANGED <<at, job>>
                  \/ snap' = first /\ UNCHANGED <<at, job>>
  <2>0. PICK v \in todo : \E first \in Reads(snap, car, {v}) : Visited(v, first)
    BY <1>7 DEF VisitNext
  <2>1. PICK first \in Reads(snap, car, {v}) : Visited(v, first)
    BY <2>0
  <2>2. first \in Snaps
    BY <1>1, ReadsAre
  <2>3. snap' \in Snaps
    BY <1>1, <2>1, <2>2, ReadsAre
  <2>4. at = "start" /\ v \in Fleet
    BY <1>1, <1>7 DEF VisitNext
  <2>5. job' \in Jobs /\ at' \in Places /\ Chosen'
    <3>1. CASE UNCHANGED <<at, job>>
      BY <1>1, <2>4, <3>1 DEF Places, Chosen, Underway
    <3>2. CASE Goto("startAmps") /\ job' = [job EXCEPT !.v = v]
      BY <1>1, <1>2, <2>4, <3>2 DEF Goto, Places, Chosen, Jobs
    <3> QED BY <2>1, <3>1, <3>2
  <2> QED BY <1>1, <1>7, <2>1, <2>3, <2>5, ReadingKeepsType DEF VisitNext, ages
<1>8. CASE VisitDone
  <2>1. job' \in Jobs /\ at' \in Places /\ Chosen'
    BY <1>2, <1>8 DEF VisitDone, EndVisit, Goto, Places, Chosen, Underway
  <2> QED
    BY <1>1, <1>8, <2>1, ReadingKeepsType DEF VisitDone, EndVisit, known, ages
<1> QED BY <1>4, <1>5, <1>6, <1>7, <1>8

(* Steps that send a command. *)
LEMMA CommandKeepsType ==
  ASSUME TypeIInv, UNCHANGED <<enabled, status, sinceAdjust>>,
         SetAmps \/ Schedule \/ StopCharge \/ StartAmps \/ StartCharge
  PROVE  TypeIInv'
<1>1. /\ snap \in Snaps /\ car \in [Fleet -> Cars] /\ job \in Jobs /\ VehiclesTypeInv
      /\ floorAge \in [Fleet -> 0..FloorCap] /\ todo \subseteq Fleet
      /\ invited \subseteq Fleet /\ sinceStartStop \in 0..Guard
  BY DEF TypeIInv, TypeInv, ControllerTypeInv, VehiclesTypeInv, Snaps
<1>2. job.v \in Fleet
  BY DEF TypeIInv, Chosen, Underway, SetAmps, Schedule, StopCharge, StartAmps, StartCharge
<1>3. UNCHANGED <<world, included, sunHours>>
  BY DEF SetAmps, Schedule, StopCharge, StartAmps, StartCharge, ages
<1>4. job.target \in Amps /\ MinCurrent \in Amps
  BY <1>1 DEF Jobs, Amps
<1>5. /\ \A reply \in Sent(job.v, "CHARGING_AMPS", job.target) : reply.cars \in [Fleet -> Cars]
      /\ \A reply \in Sent(job.v, "CHARGING_AMPS", MinCurrent) : reply.cars \in [Fleet -> Cars]
      /\ \A reply \in Sent(job.v, "SCHEDULED_CHARGING", 0) : reply.cars \in [Fleet -> Cars]
      /\ \A reply \in Sent(job.v, "STOP_CHARGE", 0) : reply.cars \in [Fleet -> Cars]
      /\ \A reply \in Sent(job.v, "START_CHARGE", 0) : reply.cars \in [Fleet -> Cars]
  BY <1>1, <1>2, <1>4, SentIs DEF Commands
<1>6. car' \in [Fleet -> Cars]
  BY <1>5 DEF SetAmps, Schedule, StopCharge, StartAmps, StartCharge
<1>7. snap' \in Snaps
  BY <1>1, <1>6, ReadsAre DEF SetAmps, Schedule, StopCharge, StartAmps, StartCharge
<1>8. floorAge' \in [Fleet -> 0..FloorCap] /\ sinceStartStop' \in 0..Guard
  <2>1. 0 \in 0..FloorCap /\ 0 \in 0..Guard
    BY DEF FloorCap
  <2>2. UNCHANGED floorAge \/ ResetFloor(job.v)
    BY DEF SetAmps, Schedule, StopCharge, StartAmps, StartCharge, ages
  <2>3. sinceStartStop' \in {0, sinceStartStop}
    BY DEF SetAmps, Schedule, StopCharge, StartAmps, StartCharge, ages
  <2> QED BY <1>1, <2>1, <2>2, <2>3 DEF ResetFloor
<1>9. job' \in Jobs /\ at' \in Places /\ Chosen' /\ todo' \subseteq Fleet /\ invited' \subseteq Fleet
  <2>1. /\ NoJob \in Jobs /\ job.back \in {"normal", "adjusted"}
        /\ [job EXCEPT !.v = NoVehicle] \in Jobs
    BY <1>1, JobIs DEF Jobs
  <2>2. CASE Return /\ UNCHANGED visit
    BY <1>1, <2>1, <2>2 DEF visit, Return, Goto, Places, Chosen, Underway
  <2>3. CASE at' \in {"stop", "startCharge"} /\ UNCHANGED <<job, visit>>
    BY <1>1, <1>2, <2>3 DEF visit, Places, Chosen
  <2>4. CASE at' \in {"start", "pick"} /\ job' = [job EXCEPT !.v = NoVehicle]
             /\ todo' \subseteq todo /\ invited' \subseteq invited
    BY <1>1, <2>1, <2>4 DEF Places, Chosen, Underway
  <2> QED
    BY <2>2, <2>3, <2>4
    DEF SetAmps, Schedule, StopCharge, StartAmps, StartCharge, EndVisit, Goto, visit
<1> QED
  BY <1>1, <1>3, <1>6, <1>7, <1>8, <1>9
  DEF TypeIInv, TypeInv, ControllerTypeInv, VehiclesTypeInv, Snaps

(* The users, the owners, the hour and the clock. *)
LEMMA MoveIs ==
  ASSUME VehiclesTypeInv, Move
  PROVE  /\ car' \in [Fleet -> Cars]
         /\ "amps" \notin here.moves => \A v \in Fleet : car'[v].amps = car[v].amps
<1>1. car \in [Fleet -> Cars]
  BY DEF VehiclesTypeInv
<1>2. PICK v \in Fleet :
        Drive(v) \/ OwnStart(v) \/ OwnStop(v) \/ Complete(v) \/ OwnAmps(v) \/ OwnMode(v)
  BY DEF Move
<1>3. PICK c : /\ Become(v, c) /\ c \in Cars
               /\ "amps" \notin here.moves => c.amps = car[v].amps
  <2>1. car[v] \in Cars
    BY <1>1
  <2>2. CASE Drive(v)
    <3>1. ASSUME NEW home \in BOOLEAN, NEW now \in {"charging", "stopped"}
          PROVE  LET c == [car[v] EXCEPT !.home = home, !.charging = now]
                 IN  c \in Cars /\ c.amps = car[v].amps
      BY <2>1 DEF Cars
    <3>2. (~car[v].home) \in BOOLEAN
      OBVIOUS
    <3> QED BY <2>2, <3>1, <3>2 DEF Drive
  <2>3. CASE OwnStart(v)
    BY <2>1, <2>3 DEF OwnStart, Cars
  <2>4. CASE OwnStop(v)
    BY <2>1, <2>4 DEF OwnStop, Cars
  <2>5. CASE Complete(v)
    BY <2>1, <2>5 DEF Complete, Cars
  <2>6. CASE OwnAmps(v)
    BY <2>1, <2>6 DEF OwnAmps, Cars
  <2>7. CASE OwnMode(v)
    <3>1. ASSUME NEW sun \in BOOLEAN
          PROVE  LET c == [car[v] EXCEPT !.sun = sun] IN c \in Cars /\ c.amps = car[v].amps
      BY <2>1 DEF Cars
    <3>2. (~car[v].sun) \in BOOLEAN
      OBVIOUS
    <3> QED BY <2>7, <3>1, <3>2 DEF OwnMode
  <2> QED BY <1>2, <2>2, <2>3, <2>4, <2>5, <2>6, <2>7
<1> QED BY <1>1, <1>3 DEF Become

LEMMA OlderIs ==
  ASSUME ControllerTypeInv, Older
  PROVE  /\ floorAge' = [v \in Fleet |-> Sooner(floorAge[v] + 1, FloorCap)]
         /\ floorAge' \in [Fleet -> 0..FloorCap]
         /\ sinceStartStop' = Sooner(sinceStartStop + 1, Guard)
         /\ sinceStartStop' \in 0..Guard
BY DEF ControllerTypeInv, Older, Sooner, FloorCap

LEMMA SurroundingsKeepType ==
  ASSUME TypeIInv, Input \/ Owners \/ ChangeHour \/ Tick
  PROVE  TypeIInv'
<1> USE DEF TypeIInv, TypeInv, ControllerTypeInv
<1>1. world \in DOMAIN World /\ VehiclesTypeInv
  BY DEF VehiclesTypeInv
<1>2. CASE Input
  <2>1. enabled' \in BOOLEAN /\ included' \subseteq Fleet
    BY <1>1, <1>2, HereIs DEF Input
  <2> QED BY <1>2, <2>1 DEF Input, known, ages, control, visit, Chosen, VehiclesTypeInv
<1>3. CASE Owners
  <2>1. car' \in [Fleet -> Cars]
    BY <1>1, <1>3, MoveIs DEF Owners
  <2> QED BY <1>3, <2>1 DEF Owners, ages, control, visit, Chosen, VehiclesTypeInv
<1>4. CASE ChangeHour
  <2>1. sunHours' \in BOOLEAN
    BY <1>1, <1>4, HereIs DEF ChangeHour
  <2> QED BY <1>4, <2>1 DEF ChangeHour, known, ages, control, visit, Chosen, VehiclesTypeInv
<1>5. CASE Tick
  <2>1. floorAge' \in [Fleet -> 0..FloorCap] /\ sinceStartStop' \in 0..Guard
    BY <1>5, OlderIs DEF Tick
  <2>2. sinceAdjust' \in 0..AdjustPeriod + 1
    BY <1>5 DEF Tick, Sooner
  <2> QED BY <1>5, <2>1, <2>2 DEF Tick, known, control, visit, Chosen, VehiclesTypeInv
<1> QED BY <1>2, <1>3, <1>4, <1>5

LEMMA StutterKeepsType == TypeIInv /\ UNCHANGED vars => TypeIInv'
BY DEF vars, known, ages, control, visit, TypeIInv, TypeInv, ControllerTypeInv, VehiclesTypeInv, Chosen

LEMMA NextType == TypeIInv /\ [Next]_vars => TypeIInv'
<1>1. ASSUME TypeIInv, MainLoop PROVE TypeIInv'
  BY <1>1, LoopKeepsType, DecisionKeepsType, CommandKeepsType
  DEF MainLoop, Controller, ControllerStep
<1> QED BY <1>1, SurroundingsKeepType, StutterKeepsType DEF Next

(* The types of the controller's state, among them that every adjustment    *)
(* and every command under way names a car of the account.                  *)
THEOREM TypeCorrect == Spec => [](TypeInv /\ Chosen)
<1>1. TypeIInv => TypeInv /\ Chosen
  BY DEF TypeIInv
<1> QED BY <1>1, InitType, NextType, PTL DEF Spec

-----------------------------------------------------------------------------
(* The control flow.  The place tells which action a step of the thread is, *)
(* and the places of commands are entered from one place each.              *)
LEMMA ActionIs ==
  ASSUME MainLoop
  PROVE  /\ at = "sunCheck" => SunBranch
         /\ at = "adjust" => Adjust
         /\ at = "setAmps" => SetAmps
         /\ at = "shed" => Shed
         /\ at = "schedule" => Schedule
         /\ at \in {"stop", "sunStop"} => StopCharge
         /\ at = "start" => VisitNext \/ VisitDone
         /\ at = "startAmps" => StartAmps
         /\ at = "startCharge" => StartCharge
BY DEF MainLoop, StartIteration, SunBranch, NormalBranch, Adjusted, Sleep, Controller,
       ControllerStep, PickRandom, Adjust, SetAmps, Shed, Schedule, StopCharge,
       VisitNext, VisitDone, StartAmps, StartCharge

LEMMA ReturnIs ==
  ASSUME TypeIInv, Return
  PROVE  at' \in {"normal", "adjusted"} /\ job'.amps = 1
<1>1. job.back \in {"normal", "adjusted"}
  BY DEF TypeIInv, TypeInv, ControllerTypeInv, Jobs
<1> QED BY <1>1 DEF Return, Goto, NoJob, Job

LEMMA FlowIs ==
  ASSUME TypeIInv, MainLoop
  PROVE  /\ at' = "setAmps" => at = "adjust"
         /\ at' = "shed" => at = "adjust"
         /\ at' \in {"schedule", "sunStop"} => at = "shed"
         /\ at' = "stop" => at = "schedule"
         /\ at' = "start" => at \in {"sunCheck", "start", "startCharge"}
         /\ at' = "startAmps" => at = "start"
         /\ at' = "startCharge" => at = "startAmps"
<1>1. CASE StartIteration \/ SunBranch \/ NormalBranch \/ Adjusted \/ Sleep
  BY <1>1 DEF StartIteration, SunBranch, NormalBranch, Adjusted, Sleep, Goto, Branch
<1>2. CASE PickRandom \/ Adjust \/ SetAmps
  BY <1>2, ReturnIs DEF PickRandom, Adjust, SetAmps, Goto
<1>3. CASE Shed \/ Schedule \/ StopCharge
  BY <1>3, ReturnIs DEF Shed, Schedule, StopCharge, Goto
<1>4. CASE VisitNext \/ VisitDone \/ StartAmps \/ StartCharge
  BY <1>4 DEF VisitNext, VisitDone, StartAmps, StartCharge, EndVisit, Goto
<1> QED BY <1>1, <1>2, <1>3, <1>4 DEF MainLoop, Controller, ControllerStep

(* A step brings the data of some cars up to date, and leaves the currents  *)
(* of the cars to the owners and to two places of the controller.           *)
LEMMA StepIs ==
  ASSUME TypeIInv, [Next]_vars
  PROVE  /\ world' = world
         /\ \A v \in Fleet : snap'[v] = snap[v] \/ snap'[v] = car'[v]
         /\ \A v \in Fleet :
              \/ car'[v].amps = car[v].amps
              \/ "amps" \in here.moves
              \/ at = "startAmps"
              \/ at = "setAmps" /\ v = job.v /\ car'[v].amps = job.target
<1>1. /\ snap \in Snaps /\ car \in [Fleet -> Cars] /\ VehiclesTypeInv
  BY DEF TypeIInv, TypeInv, ControllerTypeInv, VehiclesTypeInv, Snaps
<1>2. CASE StartIteration \/ SunBranch \/ NormalBranch \/ Adjusted \/ Sleep
  <2>1. world' = world /\ car' = car /\ (snap' = snap \/ snap' \in Reads(snap, car, Fleet))
    BY <1>2 DEF StartIteration, SunBranch, NormalBranch, Adjusted, Sleep, known
  <2> QED BY <1>1, <2>1, ReadsAre
<1>3. CASE PickRandom \/ Adjust \/ Shed \/ VisitNext \/ VisitDone
  <2>1. /\ world' = world /\ car' = car
        /\ \/ snap' = snap
           \/ \E V, W : \E data \in Reads(snap, car, V) :
                snap' = data \/ snap' \in Reads(data, car, W)
    BY <1>3 DEF PickRandom, Adjust, Shed, VisitNext, VisitDone, ReadAgain, known
  <2>2. ASSUME NEW V, NEW W, NEW data \in Reads(snap, car, V),
               snap' = data \/ snap' \in Reads(data, car, W)
        PROVE  \A v \in Fleet : snap'[v] = snap[v] \/ snap'[v] = car[v]
    <3>1. data \in Snaps /\ \A v \in Fleet : data[v] = snap[v] \/ data[v] = car[v]
      BY <1>1, ReadsAre
    <3>2. CASE snap' \in Reads(data, car, W)
      <4>1. \A v \in Fleet : snap'[v] = data[v] \/ snap'[v] = car[v]
        BY <1>1, <3>1, <3>2, ReadsAre
      <4> QED BY <3>1, <4>1
    <3> QED BY <2>2, <3>1, <3>2
  <2> QED BY <2>1, <2>2
<1>4. CASE SetAmps \/ Schedule \/ StopCharge \/ StartAmps \/ StartCharge
  <2>1. job.v \in Fleet /\ job.target \in Amps /\ MinCurrent \in Amps
    BY <1>4 DEF TypeIInv, TypeInv, ControllerTypeInv, Chosen, Underway, Jobs, Amps,
                SetAmps, Schedule, StopCharge, StartAmps, StartCharge
  <2> DEFINE Sends(command, amps, reply) ==
               /\ world' = world /\ car' = reply.cars
               /\ snap' = snap \/ \E V : snap' \in Reads(snap, car', V)
               /\ command = "CHARGING_AMPS" =>
                    \/ at = "setAmps" /\ amps = job.target
                    \/ at = "startAmps" /\ amps = MinCurrent
  <2>2. \E command \in Commands, amps \in Amps \cup {0} : \E reply \in Sent(job.v, command, amps) :
          Sends(command, amps, reply)
    <3>1. CASE SetAmps
      BY <2>1, <3>1 DEF SetAmps, Commands
    <3>2. CASE Schedule
      BY <3>2 DEF Schedule, Commands
    <3>3. CASE StopCharge
      BY <3>3 DEF StopCharge, Commands
    <3>4. CASE StartAmps
      BY <2>1, <3>4 DEF StartAmps, Commands
    <3>5. CASE StartCharge
      BY <3>5 DEF StartCharge, Commands
    <3> QED BY <1>4, <3>1, <3>2, <3>3, <3>4, <3>5
  <2>3. PICK command \in Commands, amps \in Amps \cup {0} :
          \E reply \in Sent(job.v, command, amps) : Sends(command, amps, reply)
    BY <2>2
  <2>4. PICK reply \in Sent(job.v, command, amps) : Sends(command, amps, reply)
    BY <2>3
  <2>5. /\ car' \in [Fleet -> Cars]
        /\ \A u \in Fleet : car'[u].amps =
             IF u = job.v /\ command = "CHARGING_AMPS" /\ reply.cars # car THEN amps ELSE car[u].amps
    <3>1. command = "CHARGING_AMPS" => amps \in Amps
      BY <2>1, <2>4
    <3> QED BY <1>1, <2>1, <2>4, <3>1, SentIs
  <2>6. \A v \in Fleet : snap'[v] = snap[v] \/ snap'[v] = car'[v]
    BY <1>1, <2>4, <2>5, ReadsAre
  <2> QED BY <2>4, <2>5, <2>6
<1>5. CASE Owners
  BY <1>1, <1>5, MoveIs DEF Owners
<1>6. CASE Input \/ ChangeHour \/ Tick \/ UNCHANGED vars
  BY <1>6 DEF Input, ChangeHour, Tick, vars, known
<1> QED BY <1>2, <1>3, <1>4, <1>5, <1>6 DEF Next, MainLoop, Controller, ControllerStep

-----------------------------------------------------------------------------
(* What adjust has computed when it is about to set a current: within       *)
(* job.amps of the current it has read, and below it on the way down.       *)
Aimed ==
  at = "setAmps" =>
    /\ snap[job.v] # NoData
    /\ job.target >= snap[job.v].amps - job.amps
    /\ ~job.up => job.target < snap[job.v].amps

(* Outside the sun hours no car is started, every step is of 1 A, and the   *)
(* data of a car is at most 1 A ahead of it: the controller's own commands  *)
(* that it misses leave it too low, or too high by the latest of them.      *)
AtNight ==
  Night =>
    /\ sunHours = FALSE
    /\ at \notin {"start", "startAmps", "startCharge"}
    /\ job.amps = 1
    /\ "amps" \notin here.moves =>
         \A v \in Fleet : snap[v] # NoData => snap[v].amps <= car[v].amps + 1

DownIInv == TypeIInv /\ Aimed /\ AtNight

LEMMA AdjustAims ==
  ASSUME TypeIInv, Adjust
  PROVE  Aimed' /\ job'.amps \in {1, job.amps}
<1>1. snap \in Snaps /\ car \in [Fleet -> Cars] /\ job \in Jobs /\ job.v \in Fleet
  BY DEF TypeIInv, TypeInv, ControllerTypeInv, VehiclesTypeInv, Snaps, Chosen, Underway, Adjust
<1>2. PICK data \in Reads(snap, car, {job.v}) :
        \/ Return
        \/ Goto("shed") /\ UNCHANGED job
        \/ /\ ~NotChargingHere(data[job.v]) /\ CanMove(data[job.v])
           /\ Goto("setAmps") /\ snap' = data
           /\ job' = [job EXCEPT !.target = IF job.up THEN UpTo(data[job.v].amps)
                                                       ELSE DownTo(data[job.v].amps)]
  BY DEF Adjust
<1>3. CASE Return
  BY <1>3, ReturnIs DEF Aimed
<1>4. CASE Goto("shed") /\ UNCHANGED job
  BY <1>4 DEF Goto, Aimed
<1>5. CASE /\ ~NotChargingHere(data[job.v]) /\ CanMove(data[job.v])
           /\ Goto("setAmps") /\ snap' = data
           /\ job' = [job EXCEPT !.target = IF job.up THEN UpTo(data[job.v].amps)
                                                       ELSE DownTo(data[job.v].amps)]
  <2>1. data \in Snaps
    BY <1>1, ReadsAre
  <2>2. data[job.v] # NoData /\ data[job.v].amps \in Amps /\ job.amps \in 1..MaxStep
    BY <1>1, <1>5, <2>1 DEF NotChargingHere, Charging, Snaps, Cars, Jobs
  <2>3. /\ job'.v = job.v /\ job'.up = job.up /\ job'.amps = job.amps
        /\ job'.target = IF job.up THEN UpTo(data[job.v].amps) ELSE DownTo(data[job.v].amps)
    BY <1>1, <1>5 DEF Jobs
  <2>4. UpTo(data[job.v].amps) >= data[job.v].amps - job.amps
    BY <2>2 DEF UpTo, Amps
  <2>5. DownTo(data[job.v].amps) >= data[job.v].amps - job.amps
    BY <2>2 DEF DownTo, Amps
  <2>6. ~job.up => DownTo(data[job.v].amps) < data[job.v].amps
    BY <1>5, <2>2 DEF CanMove, DownTo, Amps
  <2>7. job'.target >= data[job.v].amps - job.amps
    BY <2>3, <2>4, <2>5
  <2>8. ~job'.up => job'.target < data[job.v].amps
    BY <2>3, <2>6
  <2> QED BY <1>5, <2>2, <2>3, <2>7, <2>8 DEF Aimed
<1> QED BY <1>2, <1>3, <1>4, <1>5

LEMMA InitDown == Init => DownIInv
<1> SUFFICES ASSUME Init PROVE Aimed /\ AtNight
  BY InitType DEF DownIInv
<1>1. world \in DOMAIN World /\ at = "top" /\ job.amps = 1 /\ sunHours \in here.hours
  BY DEF Init, NoJob, Job
<1>2. \A v \in Fleet : snap[v] # NoData => snap[v].amps <= car[v].amps + 1
  <2>1. car \in [Fleet -> Cars] /\ [v \in Fleet |-> NoData] \in Snaps
    BY <1>1, HereIs DEF Init, Snaps
  <2>2. \A v \in Fleet : snap[v] = NoData \/ snap[v] = car[v]
    BY <2>1, ReadsAre DEF Init
  <2>3. \A v \in Fleet : car[v].amps <= car[v].amps + 1
    BY <2>1 DEF Cars, Amps
  <2> QED BY <2>2, <2>3
<1> QED BY <1>1, <1>2 DEF Aimed, AtNight, Night

LEMMA NextAimed ==
  ASSUME TypeIInv, Aimed, [Next]_vars
  PROVE  Aimed'
<1>1. CASE MainLoop
  <2>1. CASE at = "adjust"
    BY <1>1, <2>1, ActionIs, AdjustAims
  <2>2. CASE at # "adjust"
    BY <1>1, <2>2, FlowIs DEF Aimed
  <2> QED BY <2>1, <2>2
<1>2. CASE Input \/ Owners \/ ChangeHour \/ Tick \/ UNCHANGED vars
  BY <1>2 DEF Input, Owners, ChangeHour, Tick, vars, known, control, Aimed
<1> QED BY <1>1, <1>2 DEF Next

LEMMA NextAtNight ==
  ASSUME DownIInv, [Next]_vars
  PROVE  AtNight'
<1> SUFFICES ASSUME Night' PROVE
      /\ sunHours' = FALSE
      /\ at' \notin {"start", "startAmps", "startCharge"}
      /\ job'.amps = 1
      /\ "amps" \notin here'.moves =>
           \A v \in Fleet : snap'[v] # NoData => snap'[v].amps <= car'[v].amps + 1
  BY DEF AtNight
<1> USE DEF DownIInv
<1>1. here' = here /\ Night
  BY StepIs DEF here, Night
<1>2. sunHours = FALSE /\ at \notin {"start", "startAmps", "startCharge"} /\ job.amps = 1
  BY <1>1 DEF AtNight
<1>3. sunHours' = FALSE
  BY <1>1, <1>2
  DEF Next, Night, MainLoop, StartIteration, SunBranch, NormalBranch, Adjusted, Sleep,
      Controller, ControllerStep, PickRandom, Adjust, SetAmps, Shed, Schedule, StopCharge,
      VisitNext, VisitDone, StartAmps, StartCharge, Input, Owners, ChangeHour, Tick, vars
<1>4. at' \notin {"start", "startAmps", "startCharge"} /\ job'.amps = 1
  <2>1. CASE StartIteration \/ NormalBranch \/ Adjusted \/ Sleep
    BY <1>2, <2>1
    DEF StartIteration, NormalBranch, Adjusted, Sleep, Goto, Branch, NoJob, Job
  <2>2. CASE SunBranch
    BY <1>2, <2>2 DEF SunBranch, SunChargeEnabled, Goto
  <2>3. CASE Adjust
    <3>1. at' \notin {"start", "startAmps", "startCharge"}
      BY <2>3, ReturnIs DEF Adjust, Goto
    <3> QED BY <1>2, <2>3, <3>1, AdjustAims
  <2>4. CASE PickRandom
    <3>1. \A v : [job EXCEPT !.v = v].amps = job.amps
      BY DEF TypeIInv, TypeInv, ControllerTypeInv, Jobs
    <3> QED BY <1>2, <2>4, <3>1, ReturnIs DEF PickRandom, Goto
  <2>5. CASE SetAmps \/ Shed \/ Schedule \/ StopCharge
    BY <1>2, <2>5, ReturnIs DEF SetAmps, Shed, Schedule, StopCharge, Goto
  <2>6. ~VisitNext /\ ~VisitDone /\ ~StartAmps /\ ~StartCharge
    BY <1>2 DEF VisitNext, VisitDone, StartAmps, StartCharge
  <2>7. CASE Input \/ Owners \/ ChangeHour \/ Tick \/ UNCHANGED vars
    BY <1>2, <2>7 DEF Input, Owners, ChangeHour, Tick, vars, control
  <2> QED BY <2>1, <2>2, <2>3, <2>4, <2>5, <2>6, <2>7
          DEF Next, MainLoop, Controller, ControllerStep
<1>5. ASSUME "amps" \notin here.moves, NEW v \in Fleet, snap'[v] # NoData
      PROVE  snap'[v].amps <= car'[v].amps + 1
  <2>1. car'[v].amps \in Amps /\ car[v].amps \in Amps /\ job.target \in Amps
        /\ (snap[v] # NoData => snap[v].amps \in Amps)
    <3>1. TypeIInv'
      BY NextType
    <3> QED BY <3>1 DEF TypeIInv, TypeInv, ControllerTypeInv, VehiclesTypeInv, Jobs, Cars
  <2>2. CASE snap'[v] = car'[v]
    BY <2>1, <2>2 DEF Amps
  <2>3. CASE snap'[v] = snap[v]
    <3>1. snap[v].amps <= car[v].amps + 1
      BY <1>1, <1>5, <2>3 DEF AtNight
    <3>2. CASE car'[v].amps = car[v].amps
      BY <2>3, <3>1, <3>2
    <3>3. CASE at = "setAmps" /\ v = job.v /\ car'[v].amps = job.target
      <4>1. job.target >= snap[v].amps - 1
        BY <1>2, <3>3 DEF Aimed
      <4> QED BY <1>5, <2>1, <2>3, <3>3, <4>1 DEF Amps
    <3> QED BY <1>2, <1>5, <3>2, <3>3, StepIs
  <2> QED BY <2>2, <2>3, StepIs
<1> QED BY <1>1, <1>3, <1>4, <1>5

LEMMA NextDown == DownIInv /\ [Next]_vars => DownIInv'
BY NextType, NextAimed, NextAtNight DEF DownIInv

(* An adjustment down never leaves a car on a higher current than it had,   *)
(* outside the sun hours and while its owner leaves the current alone       *)
(* (charge_controller.py:447), for any fleet and range of currents, and     *)
(* however many reads fail and replies are lost.                            *)
THEOREM DownStaysDown == Spec => DownNeverRaises
<1>1. DownIInv /\ [Next]_vars =>
        [Night /\ "amps" \notin here.moves /\ at = "setAmps" /\ at' # at /\ ~job.up
           => car'[job.v].amps <= car[job.v].amps]_vars
  <2> SUFFICES ASSUME DownIInv, [Next]_vars,
                      Night, "amps" \notin here.moves, at = "setAmps", ~job.up
               PROVE  car'[job.v].amps <= car[job.v].amps
    OBVIOUS
  <2>1. job.v \in Fleet
    BY DEF DownIInv, TypeIInv, Chosen, Underway
  <2>2. car[job.v].amps \in Amps /\ job.target \in Amps
        /\ (snap[job.v] # NoData => snap[job.v].amps \in Amps)
    BY <2>1 DEF DownIInv, TypeIInv, TypeInv, ControllerTypeInv, VehiclesTypeInv, Jobs, Cars
  <2>3. snap[job.v] # NoData /\ job.target < snap[job.v].amps
    BY DEF DownIInv, Aimed
  <2>4. snap[job.v].amps <= car[job.v].amps + 1
    BY <2>1, <2>3 DEF DownIInv, AtNight
  <2>5. job.target <= car[job.v].amps
    BY <2>2, <2>3, <2>4 DEF Amps
  <2>6. car'[job.v].amps = car[job.v].amps \/ car'[job.v].amps = job.target
    BY <2>1, StepIs DEF DownIInv
  <2> QED BY <2>2, <2>5, <2>6 DEF Amps
<1> QED BY <1>1, InitDown, NextDown, PTL DEF Spec, DownNeverRaises

-----------------------------------------------------------------------------
(* The histories only watch: what holds of Spec holds of HistorySpec. *)
LEMMA HistoryWatches == [HistoryNext]_historyVars => [Next]_vars
BY DEF HistoryNext, Next, historyVars

(* A START_CHARGE or a STOP_CHARGE of sun charging waits for the end of the *)
(* guard time, and a timer of the code never runs ahead of what the cars    *)
(* have done.                                                               *)
GuardIInv ==
  /\ RepliesArrive => sinceObeyed >= sinceStartStop
  /\ at \in {"sunStop", "startAmps", "startCharge"} => GuardOver

(* The same for the floor time of a car that is cut. *)
FloorIInv ==
  /\ RepliesArrive => \A v \in Fleet : sinceSet[v] >= floorAge[v]
  /\ at \in {"shed", "schedule", "stop", "sunStop"} => floorAge[job.v] > MaxFloor

HistoryTypes == sinceObeyed \in 0..Guard /\ sinceSet \in [Fleet -> 0..FloorCap]

HistoryIInv == TypeIInv /\ HistoryTypes /\ GuardIInv /\ FloorIInv

LEMMA InitHistory == HistoryInit => HistoryIInv
<1> SUFFICES ASSUME HistoryInit PROVE HistoryIInv
  OBVIOUS
<1>1. TypeIInv /\ at = "top"
  BY InitType DEF HistoryInit, Init
<1>2. HistoryTypes
  BY DEF HistoryInit, HistoryTypes, FloorCap
<1>3. GuardIInv
  BY <1>1 DEF HistoryInit, Init, GuardIInv
<1>4. FloorIInv
  BY <1>1 DEF HistoryInit, Init, FloorIInv, FloorCap
<1> QED BY <1>1, <1>2, <1>3, <1>4 DEF HistoryIInv

(* What a step of the thread does to the code's timers. *)
LEMMA TimersAre ==
  ASSUME TypeIInv, MainLoop
  PROVE  /\ floorAge' = floorAge \/ (at \in {"adjust", "setAmps"} /\ ResetFloor(job.v))
         /\ \/ sinceStartStop' = sinceStartStop
            \/ at \in StartStops /\ at' \notin Underway /\ sinceStartStop' = 0
<1>1. CASE SetAmps \/ Adjust
  BY <1>1 DEF SetAmps, Adjust
<1>2. CASE StopCharge \/ StartCharge
  BY <1>2, ReturnIs DEF StopCharge, StartCharge, StartStops, EndVisit, Goto, Underway
<1>3. CASE Schedule \/ StartAmps \/ Shed \/ VisitNext \/ VisitDone \/ PickRandom
  BY <1>3 DEF Schedule, StartAmps, Shed, VisitNext, VisitDone, PickRandom, ages
<1>4. CASE StartIteration \/ SunBranch \/ NormalBranch \/ Adjusted \/ Sleep
  BY <1>4 DEF StartIteration, SunBranch, NormalBranch, Adjusted, Sleep, ages
<1> QED BY <1>1, <1>2, <1>3, <1>4 DEF MainLoop, Controller, ControllerStep

(* While no reply is lost, a command that a car has obeyed resets the timer *)
(* it belongs to.                                                           *)
LEMMA ObeyedResets ==
  ASSUME TypeIInv, MainLoop, RepliesArrive, NEW v \in Fleet, Obeys(v)
  PROVE  /\ at = "setAmps" => v = job.v /\ floorAge'[v] = 0
         /\ at \in StartStops => sinceStartStop' = 0
<1>1. VehiclesTypeInv /\ floorAge \in [Fleet -> 0..FloorCap] /\ car' # car
  BY DEF TypeIInv, TypeInv, ControllerTypeInv, Obeys
<1>2. ASSUME at = "setAmps" PROVE v = job.v /\ floorAge'[v] = 0
  <2>1. job.v \in Fleet /\ job.target \in Amps
    BY <1>2 DEF TypeIInv, TypeInv, ControllerTypeInv, Chosen, Underway, Jobs
  <2>2. PICK reply \in Sent(job.v, "CHARGING_AMPS", job.target) :
          car' = reply.cars /\ (reply.ok => ResetFloor(job.v))
    BY <1>2, ActionIs DEF SetAmps
  <2>3. /\ \A u \in Fleet : u # job.v => reply.cars[u] = car[u]
        /\ reply.cars # car /\ ~reply.ok => "lost" \in here.outcomes
    BY <1>1, <2>1, SentIs DEF Commands
  <2> QED BY <1>1, <2>1, <2>2, <2>3 DEF RepliesArrive, Obeys, ResetFloor
<1>3. ASSUME at \in StartStops PROVE sinceStartStop' = 0
  <2>1. job.v \in Fleet
    BY <1>3 DEF TypeIInv, Chosen, Underway, StartStops
  <2>2. PICK command \in {"STOP_CHARGE", "START_CHARGE"} :
          \E reply \in Sent(job.v, command, 0) :
            car' = reply.cars /\ (reply.ok => sinceStartStop' = 0)
    BY <1>3, ActionIs DEF StartStops, StopCharge, StartCharge
  <2>3. PICK reply \in Sent(job.v, command, 0) :
          car' = reply.cars /\ (reply.ok => sinceStartStop' = 0)
    BY <2>2
  <2>4. reply.cars # car /\ ~reply.ok => "lost" \in here.outcomes
    BY <1>1, <2>1, <2>2, SentIs DEF Commands
  <2> QED BY <1>1, <2>3, <2>4 DEF RepliesArrive
<1> QED BY <1>2, <1>3

LEMMA RecordIs ==
  ASSUME HistoryTypes, NEW one \in {0, 1}, Record(one)
  PROVE  /\ \/ sinceObeyed' = Sooner(sinceObeyed + one, Guard)
            \/ sinceObeyed' = 0 /\ at \in StartStops /\ \E v \in Fleet : Obeys(v)
         /\ \A v \in Fleet :
              \/ sinceSet'[v] = Sooner(sinceSet[v] + one, FloorCap)
              \/ sinceSet'[v] = 0 /\ at = "setAmps" /\ Obeys(v)
         /\ HistoryTypes'
<1>1. Sooner(sinceObeyed + one, Guard) \in 0..Guard
  BY DEF HistoryTypes, Sooner
<1>2. \A v \in Fleet : Sooner(sinceSet[v] + one, FloorCap) \in 0..FloorCap
  BY DEF HistoryTypes, Sooner, FloorCap
<1>3. 0 \in 0..FloorCap /\ 0 \in 0..Guard
  BY DEF FloorCap
<1>4. sinceObeyed' \in 0..Guard
  BY <1>1, <1>3 DEF Record
<1>5. sinceSet' \in [Fleet -> 0..FloorCap]
  BY <1>2, <1>3 DEF Record
<1>6. \A v \in Fleet : sinceSet'[v] = IF at = "setAmps" /\ Obeys(v) THEN 0
                                       ELSE Sooner(sinceSet[v] + one, FloorCap)
  BY DEF Record
<1>7. \/ sinceObeyed' = Sooner(sinceObeyed + one, Guard)
      \/ sinceObeyed' = 0 /\ at \in StartStops /\ \E v \in Fleet : Obeys(v)
  BY DEF Record
<1>8. \A v \in Fleet :
        \/ sinceSet'[v] = Sooner(sinceSet[v] + one, FloorCap)
        \/ sinceSet'[v] = 0 /\ at = "setAmps" /\ Obeys(v)
  BY <1>6
<1> QED BY <1>4, <1>5, <1>7, <1>8 DEF HistoryTypes

(* A step of the thread, with its history. *)
LEMMA ThreadKeepsHistory ==
  ASSUME HistoryIInv, MainLoop, Record(0)
  PROVE  GuardIInv' /\ FloorIInv'
<1> USE DEF HistoryIInv
<1>1. /\ sinceObeyed \in 0..Guard /\ sinceStartStop \in 0..Guard
      /\ \A v \in Fleet : sinceSet[v] \in 0..FloorCap /\ floorAge[v] \in 0..FloorCap
      /\ floorAge \in [Fleet -> 0..FloorCap]
  BY DEF HistoryTypes, TypeIInv, TypeInv, ControllerTypeInv
<1>2. RepliesArrive' <=> RepliesArrive
  <2>1. world' = world
    BY StepIs DEF Next
  <2> QED BY <2>1 DEF RepliesArrive, here
<1>3. ASSUME RepliesArrive PROVE sinceObeyed' >= sinceStartStop'
  <2>1. CASE sinceStartStop' = 0
    BY <1>1, <2>1, RecordIs DEF HistoryTypes
  <2>2. CASE sinceStartStop' = sinceStartStop /\ sinceStartStop' # 0
    <3>1. ~(at \in StartStops /\ \E v \in Fleet : Obeys(v))
      BY <1>3, <2>2, ObeyedResets
    <3>2. sinceObeyed' = Sooner(sinceObeyed + 0, Guard)
      BY <3>1, RecordIs
    <3> QED BY <1>1, <1>3, <2>2, <3>2 DEF Sooner, GuardIInv
  <2> QED BY <2>1, <2>2, TimersAre
<1>4. ASSUME RepliesArrive, NEW v \in Fleet PROVE sinceSet'[v] >= floorAge'[v]
  <2>1. floorAge'[v] = floorAge[v] \/ floorAge'[v] = 0
    BY <1>1, TimersAre DEF ResetFloor
  <2>2. CASE floorAge'[v] = 0
    BY <2>2, RecordIs DEF HistoryTypes
  <2>3. CASE floorAge'[v] = floorAge[v] /\ floorAge'[v] # 0
    <3>1. ~(at = "setAmps" /\ Obeys(v))
      BY <1>4, <2>3, ObeyedResets
    <3>2. sinceSet'[v] = Sooner(sinceSet[v] + 0, FloorCap)
      BY <3>1, RecordIs
    <3>3. sinceSet[v] >= floorAge[v]
      BY <1>4 DEF FloorIInv
    <3> QED BY <1>1, <2>3, <3>2, <3>3 DEF Sooner
  <2> QED BY <2>1, <2>2, <2>3
<1>5. ASSUME at' \in {"sunStop", "startAmps", "startCharge"} PROVE GuardOver'
  <2>1. sinceStartStop' = sinceStartStop
    BY <1>5, TimersAre DEF Underway
  <2>2. GuardOver
    <3>1. CASE at = "shed"
      BY <1>5, <3>1, ActionIs, ReturnIs DEF Shed, Goto
    <3>2. CASE at = "start"
      BY <1>5, <3>2, ActionIs DEF VisitNext, VisitDone, EndVisit, Goto
    <3>3. CASE at = "startAmps"
      BY <3>3 DEF GuardIInv
    <3> QED BY <1>5, <3>1, <3>2, <3>3, FlowIs
  <2> QED BY <2>1, <2>2 DEF GuardOver
<1>6. ASSUME at' \in {"shed", "schedule", "stop", "sunStop"}
      PROVE  floorAge'[job'.v] > MaxFloor
  <2>1. CASE at = "adjust"
    <3>1. Adjust /\ at' = "shed" /\ job.v \in Fleet
      BY <1>6, <2>1, ActionIs, FlowIs DEF TypeIInv, Chosen, Underway
    <3>2. UNCHANGED <<job, floorAge>> /\ FloorTimeOver
      BY <3>1, ReturnIs DEF Adjust, Goto
    <3> QED BY <1>1, <3>1, <3>2 DEF FloorTimeOver
  <2>2. CASE at \in {"shed", "schedule"}
    <3>1. UNCHANGED <<job, floorAge>>
      BY <1>6, <2>2, ActionIs, ReturnIs DEF Shed, Schedule, ages
    <3> QED BY <2>2, <3>1 DEF FloorIInv
  <2> QED BY <1>6, <2>1, <2>2, FlowIs
<1> QED BY <1>2, <1>3, <1>4, <1>5, <1>6 DEF GuardIInv, FloorIInv

(* A step of the surroundings, with its history. *)
LEMMA SurroundingsKeepHistory ==
  ASSUME HistoryIInv,
         (Tick /\ Record(1)) \/ ((Input \/ Owners \/ ChangeHour) /\ Record(0))
  PROVE  GuardIInv' /\ FloorIInv'
<1> USE DEF HistoryIInv
<1>1. /\ sinceObeyed \in 0..Guard /\ sinceStartStop \in 0..Guard
      /\ \A v \in Fleet : sinceSet[v] \in 0..FloorCap /\ floorAge[v] \in 0..FloorCap
  BY DEF HistoryTypes, TypeIInv, TypeInv, ControllerTypeInv
<1>2. UNCHANGED <<world, at, job>>
  BY DEF Tick, Input, Owners, ChangeHour, known, control
<1>3. PICK one \in {0, 1} :
        /\ Record(one)
        /\ sinceStartStop' = Sooner(sinceStartStop + one, Guard)
        /\ \A v \in Fleet : floorAge'[v] = Sooner(floorAge[v] + one, FloorCap)
  <2>1. CASE Tick /\ Record(1)
    BY <2>1 DEF Tick, Older
  <2>2. CASE (Input \/ Owners \/ ChangeHour) /\ Record(0)
    <3>1. UNCHANGED <<sinceStartStop, floorAge>> /\ Record(0)
      BY <2>2 DEF Input, Owners, ChangeHour, ages
    <3>2. sinceStartStop = Sooner(sinceStartStop + 0, Guard)
          /\ \A v \in Fleet : floorAge[v] = Sooner(floorAge[v] + 0, FloorCap)
      BY <1>1 DEF Sooner, FloorCap
    <3> QED BY <3>1, <3>2
  <2> QED BY <2>1, <2>2
<1>4. /\ sinceObeyed' = Sooner(sinceObeyed + one, Guard)
      /\ \A v \in Fleet : sinceSet'[v] = Sooner(sinceSet[v] + one, FloorCap)
  BY <1>2, <1>3, RecordIs DEF Obeys
<1>5. GuardIInv'
  <2>1. sinceObeyed >= sinceStartStop => sinceObeyed' >= sinceStartStop'
    BY <1>1, <1>3, <1>4 DEF Sooner
  <2>2. sinceStartStop >= Guard => sinceStartStop' >= Guard
    BY <1>1, <1>3 DEF Sooner
  <2> QED BY <1>2, <2>1, <2>2 DEF GuardIInv, RepliesArrive, here, GuardOver
<1>6. FloorIInv'
  <2>1. \A v \in Fleet : sinceSet[v] >= floorAge[v] => sinceSet'[v] >= floorAge'[v]
    BY <1>1, <1>3, <1>4 DEF Sooner, FloorCap
  <2>2. \A v \in Fleet : floorAge[v] > MaxFloor => floorAge'[v] > MaxFloor
    BY <1>1, <1>3 DEF Sooner, FloorCap
  <2>3. at \in {"shed", "schedule", "stop", "sunStop"} => job.v \in Fleet
    BY DEF TypeIInv, Chosen, Underway
  <2> QED BY <1>2, <2>1, <2>2, <2>3 DEF FloorIInv, RepliesArrive, here
<1> QED BY <1>5, <1>6

LEMMA NextHistory == HistoryIInv /\ [HistoryNext]_historyVars => HistoryIInv'
<1> SUFFICES ASSUME HistoryIInv, [HistoryNext]_historyVars PROVE HistoryIInv'
  OBVIOUS
<1>1. TypeIInv'
  BY HistoryWatches, NextType DEF HistoryIInv
<1>2. CASE UNCHANGED historyVars
  BY <1>1, <1>2
  DEF historyVars, history, vars, known, ages, control, HistoryIInv, HistoryTypes, GuardIInv,
      FloorIInv, RepliesArrive, here, GuardOver
<1>3. CASE HistoryNext
  <2>1. HistoryTypes'
    BY <1>3, RecordIs DEF HistoryIInv, HistoryNext
  <2>2. GuardIInv' /\ FloorIInv'
    BY <1>3, ThreadKeepsHistory, SurroundingsKeepHistory DEF HistoryNext
  <2> QED BY <1>1, <2>1, <2>2 DEF HistoryIInv
<1> QED BY <1>2, <1>3

(* The types, with the histories. *)
THEOREM HistoryTypeCorrect == HistorySpec => []HistoryTypeInv
<1>1. HistoryIInv => HistoryTypeInv
  BY DEF HistoryIInv, HistoryTypes, HistoryTypeInv, TypeIInv
<1> QED BY <1>1, InitHistory, NextHistory, PTL DEF HistorySpec

(* While no reply is lost, a START_CHARGE or a STOP_CHARGE of sun charging  *)
(* is obeyed no sooner than the guard time after the last one that any car  *)
(* obeyed (charge_controller.py:230), for any fleet, guard time and moves   *)
(* of the owners.                                                           *)
THEOREM GuardIsKept == HistorySpec => GuardKept
<1> DEFINE Kept == \A v \in Fleet :
                     RepliesArrive /\ at \in {"startCharge", "sunStop"} /\ Obeys(v)
                       => sinceObeyed >= Guard
<1>1. HistoryIInv => Kept
  BY DEF HistoryIInv, HistoryTypes, GuardIInv, GuardOver, TypeIInv, TypeInv, ControllerTypeInv
<1>2. HistoryIInv /\ [HistoryNext]_historyVars => [Kept]_historyVars
  BY <1>1
<1> QED BY <1>2, InitHistory, NextHistory, PTL DEF HistorySpec, GuardKept

(* While no reply is lost, a car that adjust has set to another current is  *)
(* not cut before the floor time is over (charge_controller.py:455).        *)
THEOREM FloorTimeIsKept == HistorySpec => CutAfterFloorTime
<1> DEFINE Kept == \A v \in Fleet :
                     RepliesArrive /\ at \in {"stop", "sunStop"} /\ Obeys(v)
                       => sinceSet[v] > MaxFloor
<1>1. ASSUME HistoryIInv, HistoryNext, NEW v \in Fleet,
             RepliesArrive, at \in {"stop", "sunStop"}, Obeys(v)
      PROVE  sinceSet[v] > MaxFloor
  <2>1. StopCharge /\ job.v \in Fleet /\ VehiclesTypeInv
    <3>1. MainLoop
      BY <1>1 DEF HistoryNext, Obeys, Tick, Input, Owners, ChangeHour, control
    <3> QED BY <1>1, <3>1, ActionIs
            DEF HistoryIInv, TypeIInv, TypeInv, ControllerTypeInv, Chosen, Underway
  <2>2. v = job.v
    <3>1. PICK reply \in Sent(job.v, "STOP_CHARGE", 0) : car' = reply.cars
      BY <2>1 DEF StopCharge
    <3>2. \A u \in Fleet : u # job.v => reply.cars[u] = car[u]
      BY <2>1, SentIs DEF Commands
    <3> QED BY <1>1, <3>1, <3>2 DEF Obeys
  <2>3. floorAge[v] > MaxFloor /\ sinceSet[v] >= floorAge[v]
    BY <1>1, <2>2 DEF HistoryIInv, FloorIInv
  <2>4. floorAge[v] \in 0..FloorCap /\ sinceSet[v] \in 0..FloorCap
    BY <1>1 DEF HistoryIInv, HistoryTypes, TypeIInv, TypeInv, ControllerTypeInv
  <2> QED BY <2>3, <2>4 DEF FloorCap
<1>2. HistoryIInv /\ [HistoryNext]_historyVars => [Kept]_historyVars
  BY <1>1
<1> QED BY <1>2, InitHistory, NextHistory, PTL DEF HistorySpec, CutAfterFloorTime
=============================================================================
